---- MODULE Spec2Model ----
(***************************************************************************)
(* A model of the goose migration engine (gdey/goose): the version ledger, *)
(* the forward operations Up / UpTo / UpByOne (plain path, the             *)
(* allow-missing path upWithMissing and the no-versioning path),           *)
(* missing-migration detection, Down, DownTo, Reset and Status, and the    *)
(* event sink of a call.  One action models one step of an operation       *)
(* between two observable effects (a send on the event sink, a unit run).  *)
(* A source tree is the set of the versions of its files; each call names  *)
(* the tree it collects from, so the tree can differ between two calls.    *)
(* The sink is a rendezvous channel: a send completes when the consumer    *)
(* takes the event.  In Spec the consumer always receives; in SpecConsumer *)
(* it may stop while a call is running.  The operations follow a unit run  *)
(* as one step that succeeds or fails; SpecUnit follows single unit runs   *)
(* in detail (Migration.run, runSQLMigration: transactional and            *)
(* non-transactional SQL scripts, code units) with a failure at every call *)
(* that can fail.  The package-level functions act on the default         *)
(* provider, whose source tree is its own: the no-versioning Reset reverts *)
(* through it.  SpecLive is Spec under weak fairness of the steps of a     *)
(* running call.  SpecFunctions compares two events with AreEventsEqual    *)
(* and applies Verify to a source tree of plain and templated scripts.     *)
(* ran, startLedger, sess, round and run are history variables: they       *)
(* record what a call did and do not influence it.                         *)
(***************************************************************************)
EXTENDS Integers, Sequences, FiniteSets, TLC

\* Largest migration version id that a source tree of the model contains.
MaxVersionID == 3

\* The version ids a migration file can carry (version > 0, migration.go:224-227).
Versions == 1..MaxVersionID

\* The version range of a collection: minVersion is below every unit,
\* maxVersion (the largest int64 in the program) is above every unit.
minVersion == 0

maxVersion == 2147483647

VARIABLES
    tableExists,   \* the ledger table has been created
    ledger,        \* rows of the ledger table in insertion order
    pc,            \* position of the running operation
    op,            \* the running (or last) call: name, arguments, options
    loc,           \* local variables of the running call
    result,        \* return value of the last call
    chan,          \* state of the event sink: "nil", "open", "closed"
    events,        \* events sent on the sink during this call, in order
    ran,           \* unit runs attempted during this call, in order
    startLedger,   \* ledger rows when the call started
    sess,          \* history of a series of UpByOne calls begun at version 0
    consumer,      \* the caller's goroutine reading the sink: "receiving", "stopped"
    round,         \* history of the previous call, for a pair of calls
    run            \* the unit run, or the application of a pure function,
                   \* followed in detail: its inputs and its outcome

vars == <<tableExists, ledger, pc, op, loc, result, chan, events, ran, startLedger, sess,
          consumer, round, run>>

----------------------------------------------------------------------------
\* Generic helpers

Max(S) == CHOOSE x \in S : \A y \in S : y <= x

RECURSIVE SetToSeq(_)
SetToSeq(S) ==
    IF S = {} THEN <<>>
    ELSE LET m == CHOOSE x \in S : \A y \in S : x <= y
         IN <<m>> \o SetToSeq(S \ {m})

VersionsOf(ms) == [i \in 1..Len(ms) |-> ms[i].Version]

----------------------------------------------------------------------------
\* Migration units and the collected sequence

SourceOf(v) == "m" \o ToString(v) \o ".sql"

Migration(v) == [Version |-> v, Source |-> SourceOf(v)]

\* The placeholder the engine uses when no collected unit matches a version.
NoMigration == [Version |-> -1, Source |-> ""]

CollectMigrations(dir, current, target) ==
    LET inRange == {v \in dir : v > current /\ v <= target}
        sorted  == SetToSeq(inRange)
    IN [i \in 1..Len(sorted) |-> Migration(sorted[i])]

\* Migrations.Next: first unit with a version greater than current, 0 = none.
NextIndex(ms, current) ==
    IF \E i \in 1..Len(ms) : ms[i].Version > current
    THEN CHOOSE i \in 1..Len(ms) :
            /\ ms[i].Version > current
            /\ \A j \in 1..(i-1) : ms[j].Version <= current
    ELSE 0

\* Migrations.Current: the unit whose version equals current, 0 = none.
CurrentIndex(ms, current) ==
    IF \E i \in 1..Len(ms) : ms[i].Version = current
    THEN CHOOSE i \in 1..Len(ms) : ms[i].Version = current
    ELSE 0

\* Migrations.Previous: last unit with a version less than current, 0 = none.
PreviousIndex(ms, current) ==
    IF \E i \in 1..Len(ms) : ms[i].Version < current
    THEN CHOOSE i \in 1..Len(ms) :
            /\ ms[i].Version < current
            /\ \A j \in (i+1)..Len(ms) : ms[j].Version >= current
    ELSE 0

CurrentOrNone(ms, current) ==
    IF CurrentIndex(ms, current) = 0 THEN NoMigration
    ELSE ms[CurrentIndex(ms, current)]

\* The version ids that look timestamp-derived (20060102150405) and not like
\* small sequential integers: in the model the largest version id.
TimestampVersions == {MaxVersionID}

\* Migrations.timestamped: the units with a timestamp-style version.
timestamped(ms) == SelectSeq(ms, LAMBDA m : m.Version \in TimestampVersions)

\* Number of collected units after current (the units still to apply).
NumberOfMigrations(ms, current) ==
    Cardinality({i \in 1..Len(ms) : ms[i].Version > current})

----------------------------------------------------------------------------
\* The ledger

Row(v, applied) == [versionID |-> v, isApplied |-> applied]

\* createVersionTable: the table is created with the base row of version 0.
createVersionTable(rows) == <<Row(0, TRUE)>>

\* EnsureDBVersion: first-run bootstrap of the ledger table.
EnsureDBVersion(exists, rows) == IF exists THEN rows ELSE createVersionTable(rows)

\* The most recent row of a version decides whether it is applied.
LatestRow(rows, v) ==
    LET idx == {i \in 1..Len(rows) : rows[i].versionID = v}
    IN rows[Max(idx)]

AppliedVersions(rows) ==
    {v \in {rows[i].versionID : i \in 1..Len(rows)} : LatestRow(rows, v).isApplied}

GetDBVersion_latest(rows) ==
    LET idx == {i \in 1..Len(rows) :
                  /\ rows[i].isApplied
                  /\ \A j \in (i+1)..Len(rows) : rows[j].versionID # rows[i].versionID}
    IN IF idx = {} THEN 0 ELSE rows[Max(idx)].versionID

\* GetDBVersion: the maximum versionID among the versions currently applied.
GetDBVersion(rows) ==
    IF AppliedVersions(rows) = {} THEN 0 ELSE Max(AppliedVersions(rows))

\* insertVersionSQL: append the row (version, applied).
insertVersion(rows, v) == Append(rows, Row(v, TRUE))

\* deleteVersionSQL: delete the rows of the version.
deleteVersion(rows, v) == SelectSeq(rows, LAMBDA r : r.versionID # v)

RECURSIVE SortStable(_)
SortStable(ms) ==
    IF Len(ms) <= 1 THEN ms
    ELSE LET rest == SortStable(Tail(ms))
             h    == Head(ms)
             k    == Cardinality({i \in 1..Len(rest) : rest[i].Version < h.Version})
         IN SubSeq(rest, 1, k) \o <<h>> \o SubSeq(rest, k + 1, Len(rest))

\* listAllDBVersions: every row of the table as a unit, ordered ascending.
listAllDBVersions(rows) ==
    SortStable([i \in 1..Len(rows) |-> [Version |-> rows[i].versionID, Source |-> ""]])

----------------------------------------------------------------------------
\* Missing-migration detection

findMissingMigrations_first(knownMigrations, newMigrations) ==
    LET max      == knownMigrations[1].Version
        existing == {knownMigrations[i].Version : i \in 1..Len(knownMigrations)}
        missing  == SelectSeq(newMigrations,
                        LAMBDA m : m.Version \notin existing /\ m.Version < max)
    IN SortStable(missing)

\* findMissingMigrations: the new units that are not known to the ledger and
\* lie below the last (largest) known version, sorted ascending.
findMissingMigrations(knownMigrations, newMigrations) ==
    LET max      == knownMigrations[Len(knownMigrations)].Version
        existing == {knownMigrations[i].Version : i \in 1..Len(knownMigrations)}
        missing  == SelectSeq(newMigrations,
                        LAMBDA m : m.Version \notin existing /\ m.Version < max)
    IN SortStable(missing)

----------------------------------------------------------------------------
\* Return values

Nil == [kind |-> "nil", detail |-> <<>>]

Running == [kind |-> "running", detail |-> <<>>]

ErrNoNextVersion == [kind |-> "ErrNoNextVersion", detail |-> <<>>]

MissingMigrationsErrFromMigrations_first(migrations) ==
    [kind   |-> "MissingMigrationsErr",
     detail |-> <<[Version |-> migrations[1].Version, Source |-> migrations[1].Source]>>]

\* MissingMigrationsErrFromMigrations: one entry (Version, Source) per unit.
MissingMigrationsErrFromMigrations(migrations) ==
    [kind   |-> "MissingMigrationsErr",
     detail |-> [i \in 1..Len(migrations) |->
                    [Version |-> migrations[i].Version, Source |-> migrations[i].Source]]]

ErrRun(v) == [kind |-> "ErrRun", detail |-> <<v>>]

ErrMissingMismatch(current, v) == [kind |-> "ErrMissingMismatch", detail |-> <<current, v>>]

ErrNoMigration(v) == [kind |-> "ErrNoMigration", detail |-> <<v>>]

ErrNoPrevious(v) == [kind |-> "ErrNoPrevious", detail |-> <<v>>]

ErrTimestampVersionsExist(migrations) ==
    [kind |-> "ErrTimestampVersionsExist", detail |-> VersionsOf(migrations)]

\* The errors of eventsStatus: "failed to collect migrations", "failed to
\* ensure DB version", "failed to query the latest migration".
ErrStatus(what) == [kind |-> "ErrStatus", detail |-> <<what>>]

----------------------------------------------------------------------------
\* Options and events

\* WithEvents: no sink, a sink closed on completion, a sink left open.
SinkChoices == {<<FALSE, FALSE>>, <<TRUE, FALSE>>, <<TRUE, TRUE>>}

OptionSets ==
    {[allowMissing |-> am, applyUpByOne |-> FALSE, noVersioning |-> FALSE,
      sequentialVersionsOnly |-> FALSE,
      events |-> s[1], dontCloseChannel |-> s[2]] :
        am \in BOOLEAN, s \in SinkChoices}

\* WithNoVersioning.  No operation reads allowMissing once noVersioning is
\* set, so the option sets of that mode leave it unset.
NoVersioningOptionSets ==
    {[allowMissing |-> FALSE, applyUpByOne |-> FALSE, noVersioning |-> TRUE,
      sequentialVersionsOnly |-> FALSE,
      events |-> s[1], dontCloseChannel |-> s[2]] : s \in SinkChoices}

\* The options of the operations that never read allowMissing.
PlainOptionSets == {o \in OptionSets : ~o.allowMissing} \cup NoVersioningOptionSets

withApplyUpByOne(o) == [o EXCEPT !.applyUpByOne = TRUE]

\* WithOnlySequentialVersions.
WithOnlySequentialVersions(o) == [o EXCEPT !.sequentialVersionsOnly = TRUE]

\* The option sets of the forward operations: each with and without the
\* sequential-only guard.
ForwardOptionSets ==
    LET base == OptionSets \cup NoVersioningOptionSets
    IN base \cup {WithOnlySequentialVersions(o) : o \in base}

shouldCloseEventsChannel(o) == o.events /\ ~o.dontCloseChannel

VersionCountEvent(m, total) ==
    [type |-> "VersionCount", Version |-> m.Version, VersionSource |-> m.Source,
     TotalVersionsLeft |-> total]

VersionApplyEvent(from, to, applied, isMissing, versioned, down) ==
    [type |-> "VersionApply", From |-> from.Version, FromSource |-> from.Source,
     To |-> to.Version, ToSource |-> to.Source, Applied |-> applied,
     Missing |-> isMissing, Versioned |-> versioned, Down |-> down]

\* options.send: nothing without a sink, otherwise the event is delivered.
send(ch, evs, e) == IF ch = "nil" THEN evs ELSE Append(evs, e)

\* options.send returns at once without a sink; with a sink the send
\* `o.eventsChannel <- e` completes when the consumer takes the event.
canSend(ch, c) == ch = "nil" \/ c = "receiving"

\* The close of a closed channel panics.
closePanics(ch) == ch = "closed"

Panic == [kind |-> "panic", detail |-> <<>>]

Send_dropping(e) ==
    events' = IF canSend(chan, consumer) THEN send(chan, events, e) ELSE events

\* option.send(e) on the sink of the running call.
Send(e) ==
    /\ canSend(chan, consumer)
    /\ events' = send(chan, events, e)

Unit(v, up, ok) == [Version |-> v, Up |-> up, Ok |-> ok]

----------------------------------------------------------------------------
runUnit_up(rows, m, direction, ok) ==
    IF ~ok THEN rows ELSE insertVersion(rows, m.Version)

runUnit_twice(rows, m, direction, ok) ==
    IF ~ok THEN rows
    ELSE IF direction THEN insertVersion(insertVersion(rows, m.Version), m.Version)
    ELSE deleteVersion(rows, m.Version)

runUnit_kept(rows, m, direction, ok) ==
    IF ok /\ direction THEN insertVersion(rows, m.Version) ELSE rows

runUnit_partial(rows, m, direction, ok) ==
    IF direction THEN insertVersion(rows, m.Version)
    ELSE deleteVersion(rows, m.Version)

\* One unit run (Migration.run with a versioned unit): on success the ledger
\* row of the unit is inserted (up) or deleted (down) together with the
\* unit's statements, on failure the ledger is left as it was.
runUnit(rows, m, direction, ok) ==
    IF ~ok THEN rows
    ELSE IF direction THEN insertVersion(rows, m.Version)
    ELSE deleteVersion(rows, m.Version)

\* The result of a unit run that returned an error.
runError(m) == ErrRun(m.Version)

----------------------------------------------------------------------------
\* One unit run in detail: Migration.run and runSQLMigration

\* Largest number of statements in the section of one direction.
MaxStatements == 2

\* The database a unit runs against: the ledger rows and the effects of the
\* statements and functions that took effect, in order.
Database(rows, effects) == [rows |-> rows, effects |-> effects]

\* Statement k of the section of a direction; the registered function of a
\* direction.
Statement(v, direction, k) == <<"stmt", v, direction, k>>

Function(v, direction) == <<"fn", v, direction>>

\* parseSQLMigration: the statements of the section of the direction.
statementsOf(m, direction) ==
    [k \in 1..m.statements |-> Statement(m.Version, direction, k)]

\* The call of a unit run that fails: none, the open / template / parse of
\* the script, db.Begin, the k-th Exec of a statement, the function, the
\* Exec of the ledger statement, tx.Commit.
Failures ==
    {<<"none", 0>>, <<"parse", 0>>, <<"begin", 0>>, <<"fn", 0>>, <<"ledger", 0>>,
     <<"commit", 0>>} \cup {<<"exec", k>> : k \in 1..MaxStatements}

ErrSQL(what) == [kind |-> "ErrSQL", detail |-> <<what>>]

ErrUnknownExtension(ext) == [kind |-> "ErrUnknownExtension", detail |-> <<ext>>]

ErrNotRegistered == [kind |-> "ErrNotRegistered", detail |-> <<>>]

\* What a unit run did: the database after it, its return value, whether a
\* transaction was begun, the statements and functions handed to the
\* database or called (the failing one included), and the ledger
\* statements that took effect.
Outcome(db, err, began, attempted, ledgerWrites) ==
    [db |-> db, err |-> err, began |-> began, attempted |-> attempted,
     ledgerWrites |-> ledgerWrites]

\* The ledger statement of a direction: insertVersionSQL or deleteVersionSQL.
writeVersion(rows, v, direction) ==
    IF direction THEN insertVersion(rows, v) ELSE deleteVersion(rows, v)

\* The index of the statement whose Exec fails, 0 when none does.
failingStatement(statements, fail) ==
    IF fail[1] = "exec" /\ fail[2] <= Len(statements) THEN fail[2] ELSE 0

rollback_keep(db, tx) == tx

\* tx.Rollback: the database is as it was at db.Begin.
rollback(db, tx) == db

commit_nonEmpty(db, tx) == IF tx.effects = db.effects THEN db ELSE tx

\* tx.Commit: the pending effects of the transaction take effect together.
commit(db, tx) == tx

execStatements_through(db, statements, k) ==
    Database(db.rows, db.effects \o statements)

\* The loop `for _, query := range statements`: the statements take effect
\* one by one (on the transaction or on the connection) up to, and not
\* including, the failing statement k (all of them when k = 0).
execStatements(db, statements, k) ==
    Database(db.rows,
             db.effects \o (IF k = 0 THEN statements ELSE SubSeq(statements, 1, k - 1)))

\* runSQLMigration.
runSQLMigration(db, statements, useTx, v, direction, noVersioning, fail) ==
    LET k         == failingStatement(statements, fail)
        attempted == IF k = 0 THEN statements ELSE SubSeq(statements, 1, k)
        executed  == execStatements(db, statements, k)
        written   == Database(writeVersion(executed.rows, v, direction), executed.effects)
    IN IF useTx
       THEN IF fail[1] = "begin"
            THEN Outcome(db, ErrSQL("failed to begin transaction"), FALSE, <<>>, 0)
            ELSE IF k # 0
            THEN Outcome(rollback(db, executed), ErrSQL("failed to execute SQL query"),
                         TRUE, attempted, 0)
            ELSE IF ~noVersioning /\ fail[1] = "ledger"
            THEN Outcome(rollback(db, executed), ErrSQL("failed to write goose version"),
                         TRUE, attempted, 0)
            ELSE IF fail[1] = "commit"
            THEN Outcome(db, ErrSQL("failed to commit transaction"), TRUE, attempted, 0)
            ELSE IF noVersioning
            THEN Outcome(commit(db, executed), Nil, TRUE, attempted, 0)
            ELSE Outcome(commit(db, written), Nil, TRUE, attempted, 1)
       ELSE IF k # 0
            THEN Outcome(executed, ErrSQL("failed to execute SQL query"),
                         FALSE, attempted, 0)
            ELSE IF noVersioning
            THEN Outcome(executed, Nil, FALSE, attempted, 0)
            ELSE IF fail[1] = "ledger"
            THEN Outcome(executed, ErrSQL("failed to write goose version"),
                         FALSE, attempted, 0)
            ELSE Outcome(written, Nil, FALSE, attempted, 1)

registered_any(m) == TRUE

\* A code unit runs only when its functions were registered.
registered(m) == m.Registered

\* The code unit branch of Migration.run: the function of the direction (if
\* there is one) and the ledger statement in one transaction.
runGo(db, m, direction, noVersioning, fail) ==
    LET calls   == IF m.hasFn THEN <<Function(m.Version, direction)>> ELSE <<>>
        called  == Database(db.rows, db.effects \o calls)
        written == Database(writeVersion(db.rows, m.Version, direction), called.effects)
    IN IF ~registered(m)
       THEN Outcome(db, ErrNotRegistered, FALSE, <<>>, 0)
       ELSE IF fail[1] = "begin"
       THEN Outcome(db, ErrSQL("failed to begin transaction"), FALSE, <<>>, 0)
       ELSE IF m.hasFn /\ fail[1] = "fn"
       THEN Outcome(rollback(db, called), ErrSQL("failed to run Go migration function"),
                    TRUE, calls, 0)
       ELSE IF ~noVersioning /\ fail[1] = "ledger"
       THEN Outcome(rollback(db, called), ErrSQL("failed to execute transaction"),
                    TRUE, calls, 0)
       ELSE IF fail[1] = "commit"
       THEN Outcome(db, ErrSQL("failed to commit transaction"), TRUE, calls, 0)
       ELSE IF noVersioning
       THEN Outcome(commit(db, called), Nil, TRUE, calls, 0)
       ELSE Outcome(commit(db, written), Nil, TRUE, calls, 1)

\* Migration.run: by the extension of the source.
MigrationRun(db, m, direction, noVersioning, fail) ==
    IF m.ext \in {".sql", ".tpl.sql"}
    THEN IF fail[1] = "parse"
         THEN Outcome(db, ErrSQL("failed to open or parse SQL migration file"),
                      FALSE, <<>>, 0)
         ELSE runSQLMigration(db, statementsOf(m, direction), m.useTx, m.Version,
                              direction, noVersioning, fail)
    ELSE IF m.ext = ".go"
    THEN runGo(db, m, direction, noVersioning, fail)
    ELSE Outcome(db, ErrUnknownExtension(m.ext), FALSE, <<>>, 0)

----------------------------------------------------------------------------
\* History of a series of UpByOne calls that began at ledger version 0

SessOff == [on |-> FALSE, dir |-> {}, calls |-> 0, visited |-> <<>>]

SessAtStart(s, isUpByOne, dir, rows) ==
    IF isUpByOne /\ GetDBVersion(rows) = 0
    THEN [on |-> TRUE, dir |-> dir, calls |-> 0, visited |-> <<>>]
    ELSE IF isUpByOne /\ s.on /\ s.dir = dir /\ s.calls <= Cardinality(dir)
    THEN s
    ELSE SessOff

SessAtFinish(s, res, r) ==
    IF ~s.on THEN s
    ELSE IF res.kind = "ErrRun" THEN SessOff
    ELSE [s EXCEPT !.calls = @ + 1,
                   !.visited = @ \o [i \in 1..Len(r) |-> r[i].Version]]

----------------------------------------------------------------------------
\* State machine

NoLoc ==
    [found |-> <<>>, missing |-> <<>>, lookupApplied |-> {}, current |-> 0,
     cMigration |-> NoMigration, idx |-> 0, sendTotal |-> FALSE,
     unit |-> NoMigration, previous |-> NoMigration,
     target |-> 0, finalI |-> 0, statuses |-> {},
     db |-> TRUE, werr |-> Nil, queries |-> 0, provider |-> "p"]

NoOptions ==
    [allowMissing |-> FALSE, applyUpByOne |-> FALSE, noVersioning |-> FALSE,
     sequentialVersionsOnly |-> FALSE,
     events |-> FALSE, dontCloseChannel |-> FALSE]

RoundOff == [on |-> FALSE, name |-> "none", dir |-> {}, version |-> 0,
             noVersioning |-> FALSE, applied |-> <<>>]

\* The calls whose successor is followed: a versioned UpTo that began at
\* ledger version 0 and returned nil, and a no-versioning Up or UpTo on a
\* database without a ledger table that returned nil.
RoundAtReturn(o, res, r, rows, exists) ==
    IF \/ /\ o.name = "UpTo" /\ ~o.opts.noVersioning /\ GetDBVersion(rows) = 0
          /\ res.kind = "nil"
       \/ /\ o.name \in {"Up", "UpTo"} /\ o.opts.noVersioning /\ ~exists
          /\ res.kind = "nil"
    THEN [on |-> TRUE, name |-> o.name, dir |-> o.dir, version |-> o.version,
          noVersioning |-> o.opts.noVersioning,
          applied |-> [i \in 1..Len(r) |-> r[i].Version]]
    ELSE RoundOff

\* The successor that is followed: the identical no-versioning call, and
\* the versioned DownTo(0) on the same source tree.
RoundAtStart(rnd, name, dir, version, o) ==
    IF /\ rnd.on /\ rnd.noVersioning /\ o.noVersioning
       /\ name = rnd.name /\ dir = rnd.dir /\ version = rnd.version
    THEN rnd
    ELSE IF /\ rnd.on /\ ~rnd.noVersioning /\ ~o.noVersioning
            /\ name = "DownTo" /\ version = 0 /\ dir = rnd.dir
    THEN rnd
    ELSE RoundOff

Init ==
    /\ tableExists = FALSE
    /\ ledger = <<>>
    /\ pc = "idle"
    /\ op = [name |-> "none", dir |-> {}, version |-> 0, opts |-> NoOptions]
    /\ loc = NoLoc
    /\ result = Nil
    /\ chan = "nil"
    /\ events = <<>>
    /\ ran = <<>>
    /\ startLedger = <<>>
    /\ sess = SessOff
    /\ consumer = "receiving"
    /\ round = RoundOff
    /\ run = [state |-> "none"]

\* The call returns res: the deferred close of the sink runs (the close of
\* a channel that is closed already panics), the series of UpByOne calls is
\* brought up to date.
Return(res, o, ch, s, r) ==
    /\ pc' = IF shouldCloseEventsChannel(o) /\ closePanics(ch) THEN "panic" ELSE "done"
    /\ result' = IF shouldCloseEventsChannel(o) /\ closePanics(ch) THEN Panic ELSE res
    /\ chan' = IF shouldCloseEventsChannel(o) THEN "closed" ELSE ch
    /\ sess' = SessAtFinish(s, res, r)

\* The call returns res and no deferred close runs.
ReturnOpen(res, s, r) ==
    /\ pc' = "done"
    /\ result' = res
    /\ chan' = chan
    /\ sess' = SessAtFinish(s, res, r)

exhausted_nil(o) == Nil

\* What the forward operations return once nothing is left to apply.
exhausted(o) == IF o.applyUpByOne THEN ErrNoNextVersion ELSE Nil

returnsAfterOne_always(o) == TRUE

returnsAfterOne_never(o) == FALSE

\* Whether the forward loops return after one applied unit.
returnsAfterOne(o) == o.applyUpByOne

\* TotalVersionsLeft announced by upWithMissing.
totalMigrations(o, found, current, missing) ==
    IF o.applyUpByOne THEN 1
    ELSE NumberOfMigrations(found, current) + Len(missing)

\* runSQLMigration / Migration.run with the unit's noVersioning flag: the
\* ledger statement is left out when the flag is set.
runUnitMode_versioned(rows, m, direction, ok, noVersioning) ==
    runUnit(rows, m, direction, ok)

runUnitMode(rows, m, direction, ok, noVersioning) ==
    IF noVersioning THEN rows ELSE runUnit(rows, m, direction, ok)

\* Provider.UpTo in no-versioning mode, from its entry to upToNoVersioning.
UpToNoVersioning(dir, version, o, ch) ==
    LET foundMigrations == CollectMigrations(dir, minVersion, version)
        total           == IF o.applyUpByOne THEN 1 ELSE Len(foundMigrations)
    IN /\ UNCHANGED <<tableExists, ledger>>
       /\ IF Len(foundMigrations) = 0
          THEN /\ events' = send(ch, <<>>, VersionCountEvent(NoMigration, 0))
               /\ Return(Nil, o, ch, SessOff, <<>>)
               /\ loc' = NoLoc
          ELSE /\ events' = send(ch, <<>>, VersionCountEvent(NoMigration, total))
               /\ loc' = [NoLoc EXCEPT
                            !.found = foundMigrations,
                            !.idx = 1,
                            !.target = IF o.applyUpByOne
                                       THEN foundMigrations[1].Version
                                       ELSE version]
               /\ pc' = "unv_next"
               /\ result' = Running
               /\ chan' = ch
               /\ sess' = SessOff

\* Provider.UpTo in versioned mode, from its entry to its first send or return.
UpToVersioned(dir, version, o, ch) ==
    LET foundMigrations   == CollectMigrations(dir, minVersion, version)
        rows              == EnsureDBVersion(tableExists, ledger)
        dbMigrations      == listAllDBVersions(rows)
        missingMigrations == findMissingMigrations(dbMigrations, foundMigrations)
        s                 == SessAtStart(sess, o.applyUpByOne, dir, rows)
        current           == GetDBVersion(rows)
    IN /\ tableExists' = TRUE
       /\ ledger' = rows
       /\ events' = <<>>
       /\ IF Len(missingMigrations) > 0 /\ ~o.allowMissing
          THEN /\ Return(MissingMigrationsErrFromMigrations(missingMigrations), o, ch, s, <<>>)
               /\ loc' = [NoLoc EXCEPT !.found = foundMigrations,
                                       !.missing = missingMigrations]
          ELSE IF o.allowMissing
          THEN /\ pc' = "uwm_count"
               /\ result' = Running
               /\ chan' = ch
               /\ sess' = s
               /\ loc' = [NoLoc EXCEPT
                             !.found = foundMigrations,
                             !.missing = missingMigrations,
                             !.lookupApplied =
                                 {dbMigrations[i].Version : i \in 1..Len(dbMigrations)},
                             !.current = current,
                             !.cMigration =
                                 IF CurrentIndex(foundMigrations, current) = 0
                                 THEN [Version |-> -1, Source |-> ""]
                                 ELSE foundMigrations[CurrentIndex(foundMigrations, current)]]
          ELSE /\ pc' = "up_loop"
               /\ result' = Running
               /\ chan' = ch
               /\ sess' = s
               /\ loc' = [NoLoc EXCEPT !.found = foundMigrations,
                                       !.missing = missingMigrations,
                                       !.sendTotal = TRUE]

rejectsTimestamped_all(o, foundMigrations) ==
    o.sequentialVersionsOnly /\ TimestampVersions # {}

\* The sequential-only guard refuses the collected units when one of them
\* has a timestamp-style version.
rejectsTimestamped(o, foundMigrations) ==
    o.sequentialVersionsOnly /\ Len(timestamped(foundMigrations)) > 0

\* Provider.UpTo refused by the guard: the error is returned before the
\* database is used.
UpToRejected(dir, version, o, ch) ==
    /\ UNCHANGED <<tableExists, ledger>>
    /\ events' = <<>>
    /\ loc' = NoLoc
    /\ Return(ErrTimestampVersionsExist(
                  timestamped(CollectMigrations(dir, minVersion, version))),
              o, ch, SessOff, <<>>)

\* Provider.UpTo after applyOptions, to its first send or return.
UpToEntry(name, dir, version, o) ==
    /\ startLedger' = ledger
    /\ ran' = <<>>
    /\ consumer' = "receiving"
    /\ round' = RoundAtStart(round, name, dir, version, o)
    /\ UNCHANGED run
    /\ IF rejectsTimestamped(o, CollectMigrations(dir, minVersion, version))
       THEN UpToRejected(dir, version, o, IF o.events THEN "open" ELSE "nil")
       ELSE IF o.noVersioning
       THEN UpToNoVersioning(dir, version, o, IF o.events THEN "open" ELSE "nil")
       ELSE UpToVersioned(dir, version, o, IF o.events THEN "open" ELSE "nil")

\* Provider.UpTo from its entry to its first send or return.
ProviderUpTo(name, dir, version, o) ==
    /\ pc = "idle"
    /\ op' = [name |-> name, dir |-> dir, version |-> version, opts |-> o]
    /\ UpToEntry(name, dir, version, o)

UpTo ==
    \E dir \in SUBSET Versions, version \in 0..MaxVersionID,
       o \in ForwardOptionSets :
        ProviderUpTo("UpTo", dir, version, o)

Up ==
    \E dir \in SUBSET Versions, o \in ForwardOptionSets :
        ProviderUpTo("Up", dir, maxVersion, o)

UpByOne ==
    \E dir \in SUBSET Versions, o \in ForwardOptionSets :
        ProviderUpTo("UpByOne", dir, maxVersion, withApplyUpByOne(o))

\* UpTo loop: read the current version, announce the count once.
UpToLoop ==
    /\ pc = "up_loop"
    /\ LET current    == GetDBVersion(ledger)
           cMigration == CurrentOrNone(loc.found, current)
       IN /\ IF loc.sendTotal
             THEN Send(VersionCountEvent(cMigration,
                                         NumberOfMigrations(loc.found, current)))
             ELSE UNCHANGED events
          /\ loc' = [loc EXCEPT !.current = current, !.cMigration = cMigration,
                                !.sendTotal = FALSE]
    /\ pc' = "up_next"
    /\ UNCHANGED <<tableExists, ledger, op, result, chan, ran, startLedger, consumer, round, run, sess>>

\* UpTo loop: find the next unit, leave the loop when there is none.
UpToNext ==
    /\ pc = "up_next"
    /\ LET i == NextIndex(loc.found, loc.current)
       IN IF i = 0
          THEN /\ Return(exhausted(op.opts), op.opts, chan, sess, ran)
               /\ UNCHANGED <<events, loc>>
          ELSE /\ Send(VersionApplyEvent(loc.cMigration, loc.found[i],
                                                   FALSE, FALSE, TRUE, FALSE))
               /\ loc' = [loc EXCEPT !.unit = loc.found[i]]
               /\ pc' = "up_run"
               /\ UNCHANGED <<result, chan, sess>>
    /\ UNCHANGED <<tableExists, ledger, op, ran, startLedger, consumer, round, run>>

\* UpTo loop: next.UpWithProvider.
UpToRun ==
    /\ pc = "up_run"
    /\ \E ok \in BOOLEAN :
        /\ ledger' = runUnit(ledger, loc.unit, TRUE, ok)
        /\ ran' = Append(ran, Unit(loc.unit.Version, TRUE, ok))
        /\ IF ok
           THEN /\ pc' = "up_after"
                /\ UNCHANGED <<result, chan, sess>>
           ELSE Return(runError(loc.unit), op.opts, chan, sess, ran)
    /\ UNCHANGED <<tableExists, op, loc, events, startLedger, consumer, round, run>>

\* UpTo loop: announce the applied unit, return after one in single-step mode.
UpToAfter ==
    /\ pc = "up_after"
    /\ Send(VersionApplyEvent(loc.cMigration, loc.unit, TRUE, FALSE, TRUE, FALSE))
    /\ IF returnsAfterOne(op.opts)
       THEN Return(Nil, op.opts, chan, sess, ran)
       ELSE /\ pc' = "up_loop"
            /\ UNCHANGED <<result, chan, sess>>
    /\ UNCHANGED <<tableExists, ledger, op, loc, ran, startLedger, consumer, round, run>>

----------------------------------------------------------------------------
\* upToNoVersioning (the no-versioning path of UpTo)

\* Head of the loop over the collected units: leave at the first unit above
\* the target, otherwise announce the unit.
UpNoVersioningNext ==
    /\ pc = "unv_next"
    /\ IF loc.idx > Len(loc.found) \/ loc.found[loc.idx].Version > loc.target
       THEN /\ Return(Nil, op.opts, chan, sess, ran)
            /\ UNCHANGED <<events, loc>>
       ELSE /\ Send(VersionApplyEvent(NoMigration, loc.found[loc.idx],
                                      FALSE, FALSE, FALSE, FALSE))
            /\ loc' = [loc EXCEPT !.unit = loc.found[loc.idx]]
            /\ pc' = "unv_run"
            /\ UNCHANGED <<result, chan, sess>>
    /\ UNCHANGED <<tableExists, ledger, op, ran, startLedger, consumer, round, run>>

\* current.UpWithProvider with current.noVersioning set.
UpNoVersioningRun ==
    /\ pc = "unv_run"
    /\ \E ok \in BOOLEAN :
        /\ ledger' = runUnitMode(ledger, loc.unit, TRUE, ok, TRUE)
        /\ ran' = Append(ran, Unit(loc.unit.Version, TRUE, ok))
        /\ IF ok
           THEN /\ pc' = "unv_after"
                /\ UNCHANGED <<result, chan, sess>>
           ELSE Return(runError(loc.unit), op.opts, chan, sess, ran)
    /\ UNCHANGED <<tableExists, op, loc, events, startLedger, consumer, round, run>>

UpNoVersioningAfter ==
    /\ pc = "unv_after"
    /\ Send(VersionApplyEvent(NoMigration, loc.unit, TRUE, FALSE, FALSE, FALSE))
    /\ loc' = [loc EXCEPT !.idx = @ + 1]
    /\ pc' = "unv_next"
    /\ UNCHANGED <<tableExists, ledger, op, result, chan, ran, startLedger, sess,
                   consumer, round, run>>

----------------------------------------------------------------------------
\* upWithMissing (the allow-missing path of UpTo)

missingCheck_skipped(current, missingVersion) == TRUE

\* The consistency check made after a missing unit was applied.
missingCheck(current, missingVersion) == current = missingVersion

skipApplied_none(found, lookupApplied, i) == i

skipApplied_one(found, lookupApplied, i) ==
    IF i <= Len(found) /\ found[i].Version \in lookupApplied THEN i + 1 ELSE i

\* First index at or after i of a found unit that lookupApplied does not hold.
RECURSIVE skipApplied(_, _, _)
skipApplied(found, lookupApplied, i) ==
    IF i > Len(found) THEN i
    ELSE IF found[i].Version \in lookupApplied
    THEN skipApplied(found, lookupApplied, i + 1)
    ELSE i

UpMissingCount ==
    /\ pc = "uwm_count"
    /\ Send(VersionCountEvent(loc.cMigration,
                          totalMigrations(op.opts, loc.found, loc.current, loc.missing)))
    /\ loc' = [loc EXCEPT !.idx = 1]
    /\ pc' = "uwm_missing"
    /\ UNCHANGED <<tableExists, ledger, op, result, chan, ran, startLedger, consumer, round, run, sess>>

\* Head of the loop over the missing units.
UpMissingNext ==
    /\ pc = "uwm_missing"
    /\ IF loc.idx > Len(loc.missing)
       THEN /\ loc' = [loc EXCEPT !.idx = 1]
            /\ pc' = "uwm_found"
            /\ UNCHANGED events
       ELSE /\ Send(VersionApplyEvent(loc.cMigration, loc.missing[loc.idx],
                                                FALSE, TRUE, TRUE, FALSE))
            /\ loc' = [loc EXCEPT !.unit = loc.missing[loc.idx]]
            /\ pc' = "uwm_mrun"
    /\ UNCHANGED <<tableExists, ledger, op, result, chan, ran, startLedger, consumer, round, run, sess>>

\* missing.UpWithProvider.
UpMissingRun ==
    /\ pc = "uwm_mrun"
    /\ \E ok \in BOOLEAN :
        /\ ledger' = runUnit(ledger, loc.unit, TRUE, ok)
        /\ ran' = Append(ran, Unit(loc.unit.Version, TRUE, ok))
        /\ IF ok
           THEN /\ pc' = "uwm_mafter"
                /\ UNCHANGED <<result, chan, sess>>
           ELSE Return(runError(loc.unit), op.opts, chan, sess, ran)
    /\ UNCHANGED <<tableExists, op, loc, events, startLedger, consumer, round, run>>

\* After a missing unit: announce it, re-read the current version, check it.
UpMissingAfter ==
    /\ pc = "uwm_mafter"
    /\ Send(VersionApplyEvent(loc.cMigration, loc.unit, TRUE, TRUE, TRUE, FALSE))
    /\ LET current == GetDBVersion(ledger)
       IN IF returnsAfterOne(op.opts)
          THEN /\ Return(Nil, op.opts, chan, sess, ran)
               /\ loc' = [loc EXCEPT !.cMigration = loc.unit]
          ELSE IF missingCheck(current, loc.unit.Version)
          THEN /\ loc' = [loc EXCEPT !.cMigration = loc.unit,
                                     !.lookupApplied = @ \cup {loc.unit.Version},
                                     !.idx = @ + 1]
               /\ pc' = "uwm_missing"
               /\ UNCHANGED <<result, chan, sess>>
          ELSE /\ Return(ErrMissingMismatch(current, loc.unit.Version),
                         op.opts, chan, sess, ran)
               /\ loc' = [loc EXCEPT !.cMigration = loc.unit]
    /\ UNCHANGED <<tableExists, ledger, op, ran, startLedger, consumer, round, run>>

\* Head of the loop over the found units: skip the units already known.
UpFoundNext ==
    /\ pc = "uwm_found"
    /\ LET j  == skipApplied(loc.found, loc.lookupApplied, loc.idx)
           cM == IF j > loc.idx THEN loc.found[j - 1] ELSE loc.cMigration
       IN IF j > Len(loc.found)
          THEN /\ Return(exhausted(op.opts), op.opts, chan, sess, ran)
               /\ loc' = [loc EXCEPT !.idx = j, !.cMigration = cM,
                                     !.current = GetDBVersion(ledger)]
               /\ UNCHANGED events
          ELSE /\ Send(VersionApplyEvent(cM, loc.found[j],
                                                   FALSE, FALSE, TRUE, FALSE))
               /\ loc' = [loc EXCEPT !.idx = j, !.cMigration = cM,
                                     !.unit = loc.found[j]]
               /\ pc' = "uwm_frun"
               /\ UNCHANGED <<result, chan, sess>>
    /\ UNCHANGED <<tableExists, ledger, op, ran, startLedger, consumer, round, run>>

\* found.UpWithProvider.
UpFoundRun ==
    /\ pc = "uwm_frun"
    /\ \E ok \in BOOLEAN :
        /\ ledger' = runUnit(ledger, loc.unit, TRUE, ok)
        /\ ran' = Append(ran, Unit(loc.unit.Version, TRUE, ok))
        /\ IF ok
           THEN /\ pc' = "uwm_fafter"
                /\ UNCHANGED <<result, chan, sess>>
           ELSE Return(runError(loc.unit), op.opts, chan, sess, ran)
    /\ UNCHANGED <<tableExists, op, loc, events, startLedger, consumer, round, run>>

UpFoundAfter ==
    /\ pc = "uwm_fafter"
    /\ Send(VersionApplyEvent(loc.cMigration, loc.unit, TRUE, FALSE, TRUE, FALSE))
    /\ IF returnsAfterOne(op.opts)
       THEN /\ Return(Nil, op.opts, chan, sess, ran)
            /\ UNCHANGED loc
       ELSE /\ loc' = [loc EXCEPT !.cMigration = loc.unit, !.idx = @ + 1]
            /\ pc' = "uwm_found"
            /\ UNCHANGED <<result, chan, sess>>
    /\ UNCHANGED <<tableExists, ledger, op, ran, startLedger, consumer, round, run>>

----------------------------------------------------------------------------
\* Down (versioned)

noPrevious_unchecked(migrations, currentVersion) == FALSE

\* Down fails when no collected unit has a version below the current one.
noPrevious(migrations, currentVersion) == PreviousIndex(migrations, currentVersion) = 0

\* Provider.Down in versioned mode, from GetDBVersion to its first send or return.
DownVersioned(dir, o, ch) ==
    LET migrations     == CollectMigrations(dir, minVersion, maxVersion)
        rows           == EnsureDBVersion(tableExists, ledger)
        currentVersion == GetDBVersion(rows)
        ci             == CurrentIndex(migrations, currentVersion)
        pi             == PreviousIndex(migrations, currentVersion)
    IN /\ tableExists' = TRUE
       /\ ledger' = rows
       /\ IF CurrentIndex(migrations, currentVersion) = 0
          THEN /\ Return(ErrNoMigration(currentVersion), o, ch, SessOff, <<>>)
               /\ events' = <<>>
               /\ loc' = [NoLoc EXCEPT !.found = migrations,
                                       !.current = currentVersion]
          ELSE IF noPrevious(migrations, currentVersion)
          THEN /\ Return(ErrNoPrevious(currentVersion), o, ch, SessOff, <<>>)
               /\ events' = <<>>
               /\ loc' = [NoLoc EXCEPT !.found = migrations,
                                       !.current = currentVersion]
          ELSE /\ events' = send(ch, <<>>, VersionCountEvent(migrations[ci], 1))
               /\ loc' = [NoLoc EXCEPT !.found = migrations,
                                       !.current = currentVersion,
                                       !.unit = migrations[ci],
                                       !.previous = IF pi = 0 THEN NoMigration
                                                    ELSE migrations[pi]]
               /\ pc' = "down_before"
               /\ result' = Running
               /\ chan' = ch
               /\ sess' = SessOff

\* Provider.Down in no-versioning mode: downToNoVersioning with the target
\* one below the last collected version.
DownNoVersioning(dir, o, ch) ==
    LET migrations == CollectMigrations(dir, minVersion, maxVersion)
    IN /\ UNCHANGED <<tableExists, ledger>>
       /\ events' = <<>>
       /\ IF Len(migrations) = 0
          THEN /\ Return(Nil, o, ch, SessOff, <<>>)
               /\ loc' = NoLoc
          ELSE /\ loc' = [NoLoc EXCEPT
                            !.found = migrations,
                            !.target = migrations[Len(migrations)].Version - 1]
               /\ pc' = "dnv_count"
               /\ result' = Running
               /\ chan' = ch
               /\ sess' = SessOff

\* Provider.Down from its entry to its first send or return.
Down ==
    /\ pc = "idle"
    /\ \E dir \in SUBSET Versions, o \in PlainOptionSets :
        /\ op' = [name |-> "Down", dir |-> dir, version |-> 0, opts |-> o]
        /\ startLedger' = ledger
        /\ ran' = <<>>
        /\ consumer' = "receiving"
        /\ round' = RoundAtStart(round, "Down", dir, 0, o)
        /\ UNCHANGED run
        /\ IF o.noVersioning
           THEN DownNoVersioning(dir, o, IF o.events THEN "open" ELSE "nil")
           ELSE DownVersioned(dir, o, IF o.events THEN "open" ELSE "nil")

DownBefore ==
    /\ pc = "down_before"
    /\ Send(VersionApplyEvent(loc.unit, loc.previous, FALSE, FALSE, TRUE, TRUE))
    /\ pc' = "down_run"
    /\ UNCHANGED <<tableExists, ledger, op, loc, result, chan, ran, startLedger, consumer, round, run, sess>>

\* current.DownWithProvider.
DownRun ==
    /\ pc = "down_run"
    /\ \E ok \in BOOLEAN :
        /\ ledger' = runUnit(ledger, loc.unit, FALSE, ok)
        /\ ran' = Append(ran, Unit(loc.unit.Version, FALSE, ok))
        /\ IF ok
           THEN /\ pc' = "down_after"
                /\ UNCHANGED <<result, chan, sess>>
           ELSE Return(runError(loc.unit), op.opts, chan, sess, ran)
    /\ UNCHANGED <<tableExists, op, loc, events, startLedger, consumer, round, run>>

DownAfter ==
    /\ pc = "down_after"
    /\ Send(VersionApplyEvent(loc.unit, loc.previous, TRUE, FALSE, TRUE, TRUE))
    /\ Return(Nil, op.opts, chan, sess, ran)
    /\ UNCHANGED <<tableExists, ledger, op, loc, ran, startLedger, consumer, round, run>>

----------------------------------------------------------------------------
\* downToNoVersioning (the no-versioning path of Down, DownTo and Reset)

\* Migrations.NumberOfMigrationsTo: the units above `to` up to `from`.
NumberOfMigrationsTo(ms, from, to) ==
    Cardinality({i \in 1..Len(ms) : ms[i].Version > to /\ ms[i].Version <= from})

\* The index finalI at which the revert loop of downToNoVersioning stops:
\* the last unit whose version is not above the target, the first unit when
\* there is none.
finalIndex(migrations, version) ==
    IF \E i \in 1..Len(migrations) : version >= migrations[i].Version
    THEN Max({i \in 1..Len(migrations) : version >= migrations[i].Version})
    ELSE 1

\* finalVersion: the version of that unit, 0 when there is none.
finalVersionOf(migrations, version) ==
    IF \E i \in 1..Len(migrations) : version >= migrations[i].Version
    THEN migrations[finalIndex(migrations, version)].Version
    ELSE 0

\* The unit before index i, the zero unit before the first.
unitBefore(migrations, i) ==
    IF i > 1 THEN migrations[i - 1] ELSE [Version |-> 0, Source |-> ""]

\* Down closes the sink by a deferred call; DownTo has closed it at its
\* entry and Reset does not close it.
Finish(res) ==
    IF op.name = "Down"
    THEN Return(res, op.opts, chan, sess, ran)
    ELSE ReturnOpen(res, sess, ran)

\* downToNoVersioning from its entry to the VersionCountEvent.
DownNoVersioningCount ==
    /\ pc = "dnv_count"
    /\ IF Len(loc.found) = 0
       THEN /\ Finish(Nil)
            /\ UNCHANGED <<events, loc>>
       ELSE IF chan = "closed"
       THEN /\ pc' = "panic"
            /\ result' = Panic
            /\ UNCHANGED <<events, loc, chan, sess>>
       ELSE /\ Send(VersionCountEvent(loc.found[Len(loc.found)],
                        NumberOfMigrationsTo(loc.found, loc.found[Len(loc.found)].Version,
                                             finalVersionOf(loc.found, loc.target))))
            /\ loc' = [loc EXCEPT !.finalI = finalIndex(loc.found, loc.target),
                                  !.idx = Len(loc.found)]
            /\ pc' = "dnv_next"
            /\ UNCHANGED <<result, chan, sess>>
    /\ UNCHANGED <<tableExists, ledger, op, ran, startLedger, consumer, round, run>>

\* Head of the revert loop `for i := len(migrations) - 1; i >= finalI; i--`.
DownNoVersioningNext ==
    /\ pc = "dnv_next"
    /\ IF loc.idx < loc.finalI
       THEN /\ Finish(Nil)
            /\ UNCHANGED <<events, loc>>
       ELSE /\ Send(VersionApplyEvent(loc.found[loc.idx], unitBefore(loc.found, loc.idx),
                                      FALSE, FALSE, FALSE, TRUE))
            /\ loc' = [loc EXCEPT !.unit = loc.found[loc.idx],
                                  !.previous = unitBefore(loc.found, loc.idx)]
            /\ pc' = "dnv_run"
            /\ UNCHANGED <<result, chan, sess>>
    /\ UNCHANGED <<tableExists, ledger, op, ran, startLedger, consumer, round, run>>

\* migrations[i].DownWithProvider with noVersioning set.
DownNoVersioningRun ==
    /\ pc = "dnv_run"
    /\ \E ok \in BOOLEAN :
        /\ ledger' = runUnitMode(ledger, loc.unit, FALSE, ok, TRUE)
        /\ ran' = Append(ran, Unit(loc.unit.Version, FALSE, ok))
        /\ IF ok
           THEN /\ pc' = "dnv_after"
                /\ UNCHANGED <<result, chan, sess>>
           ELSE Finish(runError(loc.unit))
    /\ UNCHANGED <<tableExists, op, loc, events, startLedger, consumer, round, run>>

DownNoVersioningAfter ==
    /\ pc = "dnv_after"
    /\ Send(VersionApplyEvent(loc.unit, loc.previous, TRUE, FALSE, FALSE, TRUE))
    /\ loc' = [loc EXCEPT !.idx = @ - 1]
    /\ pc' = "dnv_next"
    /\ UNCHANGED <<tableExists, ledger, op, result, chan, ran, startLedger, sess,
                   consumer, round, run>>

----------------------------------------------------------------------------
\* DownTo

ErrNoCurrentVersion(v) == [kind |-> "ErrNoCurrentVersion", detail |-> <<v>>]

\* The sink after the entry of DownTo: closed there when the call is to
\* close it (close(option.eventsChannel), not deferred).
chanAtEntry(o) ==
    IF shouldCloseEventsChannel(o) THEN "closed"
    ELSE IF o.events THEN "open" ELSE "nil"

nothingToRevert_one(currentVersion) == currentVersion <= 1

\* DownTo returns nil at ledger version 0.
nothingToRevert(currentVersion) == currentVersion = 0

\* Provider.DownTo from its entry to its loop or to downToNoVersioning.
DownTo ==
    /\ pc = "idle"
    /\ \E dir \in SUBSET Versions, version \in 0..MaxVersionID, o \in PlainOptionSets :
        /\ op' = [name |-> "DownTo", dir |-> dir, version |-> version, opts |-> o]
        /\ loc' = [NoLoc EXCEPT !.found = CollectMigrations(dir, minVersion, maxVersion),
                                !.target = version]
        /\ chan' = chanAtEntry(o)
        /\ pc' = IF o.noVersioning THEN "dnv_count" ELSE "dt_loop"
        /\ round' = RoundAtStart(round, "DownTo", dir, version, o)
        /\ UNCHANGED run
    /\ result' = Running
    /\ events' = <<>>
    /\ ran' = <<>>
    /\ startLedger' = ledger
    /\ sess' = SessOff
    /\ consumer' = "receiving"
    /\ UNCHANGED <<tableExists, ledger>>

\* Head of the loop of DownTo: read the current version, look up its unit,
\* compare it with the target.
DownToLoop ==
    /\ pc = "dt_loop"
    /\ LET rows           == EnsureDBVersion(tableExists, ledger)
           currentVersion == GetDBVersion(rows)
           ci             == CurrentIndex(loc.found, currentVersion)
       IN /\ tableExists' = TRUE
          /\ ledger' = rows
          /\ IF nothingToRevert(currentVersion)
             THEN /\ ReturnOpen(Nil, sess, ran)
                  /\ loc' = [loc EXCEPT !.current = currentVersion]
             ELSE IF ci = 0
             THEN /\ ReturnOpen(ErrNoCurrentVersion(currentVersion), sess, ran)
                  /\ loc' = [loc EXCEPT !.current = currentVersion]
             ELSE IF loc.found[ci].Version <= loc.target
             THEN /\ ReturnOpen(Nil, sess, ran)
                  /\ loc' = [loc EXCEPT !.current = currentVersion]
             ELSE /\ loc' = [loc EXCEPT !.current = currentVersion,
                                        !.unit = loc.found[ci]]
                  /\ pc' = "dt_run"
                  /\ UNCHANGED <<result, chan, sess>>
    /\ UNCHANGED <<op, events, ran, startLedger, consumer, round, run>>

\* current.DownWithProvider.
DownToRun ==
    /\ pc = "dt_run"
    /\ \E ok \in BOOLEAN :
        /\ ledger' = runUnit(ledger, loc.unit, FALSE, ok)
        /\ ran' = Append(ran, Unit(loc.unit.Version, FALSE, ok))
        /\ IF ok
           THEN /\ pc' = "dt_loop"
                /\ UNCHANGED <<result, chan, sess>>
           ELSE ReturnOpen(runError(loc.unit), sess, ran)
    /\ UNCHANGED <<tableExists, op, loc, events, startLedger, consumer, round, run>>

----------------------------------------------------------------------------
\* Reset

Reverse(s) == [i \in 1..Len(s) |-> s[Len(s) + 1 - i]]

\* dbVersionQuery: the rows of the ledger table, the most recent first.
dbVersionQuery(rows) == Reverse(rows)

\* dbMigrationsStatus: the versions whose first row in the query result
\* says applied; the empty map when the query fails (no ledger table).
dbMigrationsStatus(exists, rows) ==
    IF ~exists THEN {}
    ELSE LET q == dbVersionQuery(rows)
         IN {q[k].versionID : k \in {i \in 1..Len(q) :
                /\ q[i].isApplied
                /\ \A j \in 1..(i - 1) : q[j].versionID # q[i].versionID}}

resetOrder_ascending(migrations) == migrations

\* sort.Sort(sort.Reverse(migrations)) on the collected (ascending) sequence.
resetOrder(migrations) == Reverse(migrations)

\* First index at or after i of a unit whose status is applied.
RECURSIVE skipUnapplied(_, _, _)
skipUnapplied(migrations, statuses, i) ==
    IF i > Len(migrations) THEN i
    ELSE IF migrations[i].Version \in statuses THEN i
    ELSE skipUnapplied(migrations, statuses, i + 1)

\* The source trees the default provider can hold under the directory of a
\* call made on the provider p: the tree of p (p is the default provider, or
\* reads the same files) or any other tree.
DefaultTrees == SUBSET Versions

\* Provider.Reset from its entry to its loop, or, in no-versioning mode, into
\* the package-level DownTo: DownTo of the default provider, which closes
\* the sink at its entry and collects from its own source tree.
Reset ==
    /\ pc = "idle"
    /\ \E dir \in SUBSET Versions, o \in PlainOptionSets :
        LET migrations == CollectMigrations(dir, minVersion, maxVersion)
        IN /\ op' = [name |-> "Reset", dir |-> dir, version |-> 0, opts |-> o]
           /\ round' = RoundAtStart(round, "Reset", dir, 0, o)
           /\ UNCHANGED run
           /\ IF o.noVersioning
              THEN /\ \E defaultDir \in DefaultTrees :
                        loc' = [NoLoc EXCEPT
                                  !.provider = "default",
                                  !.found = CollectMigrations(defaultDir, minVersion,
                                                              maxVersion),
                                  !.target = minVersion]
                   /\ chan' = chanAtEntry(o)
                   /\ pc' = "dnv_count"
              ELSE /\ loc' = [NoLoc EXCEPT
                                !.found = resetOrder(migrations),
                                !.statuses = dbMigrationsStatus(tableExists, ledger),
                                !.idx = 1]
                   /\ chan' = IF o.events THEN "open" ELSE "nil"
                   /\ pc' = "rs_next"
    /\ result' = Running
    /\ events' = <<>>
    /\ ran' = <<>>
    /\ startLedger' = ledger
    /\ sess' = SessOff
    /\ consumer' = "receiving"
    /\ UNCHANGED <<tableExists, ledger>>

\* Head of the loop of Reset: skip the units whose status is not applied.
ResetNext ==
    /\ pc = "rs_next"
    /\ LET j == skipUnapplied(loc.found, loc.statuses, loc.idx)
       IN IF j > Len(loc.found)
          THEN /\ ReturnOpen(Nil, sess, ran)
               /\ loc' = [loc EXCEPT !.idx = j]
          ELSE /\ loc' = [loc EXCEPT !.idx = j, !.unit = loc.found[j]]
               /\ pc' = "rs_run"
               /\ UNCHANGED <<result, chan, sess>>
    /\ UNCHANGED <<tableExists, ledger, op, events, ran, startLedger, consumer, round, run>>

\* migration.DownWithProvider.
ResetRun ==
    /\ pc = "rs_run"
    /\ \E ok \in BOOLEAN :
        /\ ledger' = runUnit(ledger, loc.unit, FALSE, ok)
        /\ ran' = Append(ran, Unit(loc.unit.Version, FALSE, ok))
        /\ IF ok
           THEN /\ pc' = "rs_next"
                /\ loc' = [loc EXCEPT !.idx = @ + 1]
                /\ UNCHANGED <<result, chan, sess>>
           ELSE /\ ReturnOpen(runError(loc.unit), sess, ran)
                /\ UNCHANGED loc
    /\ UNCHANGED <<tableExists, op, events, startLedger, consumer, round, run>>

----------------------------------------------------------------------------
\* Status

\* migrationSQL: whether the ledger holds a row of the version (its tstamp
\* becomes AppliedAt).
hasRow(rows, v) == \E i \in 1..Len(rows) : rows[i].versionID = v

StatusEvent_stamped(m, versioned, applied) ==
    [type |-> "Status", Source |-> m.Source, Version |-> m.Version,
     Versioned |-> versioned, Applied |-> versioned]

\* StatusEvent; Applied stands for a non-zero AppliedAt.
StatusEvent(m, versioned, applied) ==
    [type |-> "Status", Source |-> m.Source, Version |-> m.Version,
     Versioned |-> versioned, Applied |-> applied]

statusUsesLedger_option(noVersioning, db) == ~noVersioning

\* eventsStatus reads the ledger unless `noVersioning || db == nil`.
statusUsesLedger(noVersioning, db) == ~(noVersioning \/ ~db)

\* Provider.Status from its entry to the loop of eventsStatus: the goroutine
\* collects the units and, when it reads the ledger, ensures the ledger
\* table.  A failure of either ends eventsStatus with its error in werr.
Status ==
    /\ pc = "idle"
    /\ \E dir \in SUBSET Versions, o \in PlainOptionSets, db \in BOOLEAN,
          fail \in {"none", "collect", "ensure"} :
        LET usesLedger == statusUsesLedger(o.noVersioning, db)
        IN /\ fail = "ensure" => usesLedger
           /\ op' = [name |-> "Status", dir |-> dir, version |-> 0, opts |-> o]
           /\ loc' = [NoLoc EXCEPT
                        !.found = IF fail = "collect" THEN <<>>
                                  ELSE CollectMigrations(dir, minVersion, maxVersion),
                        !.idx = 1,
                        !.db = db,
                        !.werr = IF fail = "none" THEN Nil ELSE ErrStatus(fail)]
           /\ chan' = IF o.events THEN "open" ELSE "nil"
           /\ round' = RoundAtStart(round, "Status", dir, 0, o)
           /\ UNCHANGED run
           /\ tableExists' = IF usesLedger /\ fail = "none" THEN TRUE ELSE tableExists
           /\ ledger' = IF usesLedger /\ fail = "none"
                        THEN EnsureDBVersion(tableExists, ledger)
                        ELSE ledger
    /\ pc' = "st_produce"
    /\ result' = Running
    /\ events' = <<>>
    /\ ran' = <<>>
    /\ startLedger' = ledger
    /\ sess' = SessOff
    /\ consumer' = "receiving"

\* The values Status can read from err once the channel of eventsStatus is
\* closed: the goroutine writes err after eventsStatus has returned, that is
\* after the deferred close, and Status reads it without synchronisation, so
\* it reads the error of eventsStatus or the nil from before the write.
statusErr(werr) == {werr, Nil}

\* eventsStatus queries the row of the next unit and hands its event to the
\* loop of Status over its own channel, or ends (after the last unit, or on
\* an error) and closes that channel: the loop ends, Status returns err and
\* its deferred close of the sink runs.
StatusProduce ==
    /\ pc = "st_produce"
    /\ IF loc.werr # Nil \/ loc.idx > Len(loc.found)
       THEN /\ \E res \in statusErr(loc.werr) : Return(res, op.opts, chan, sess, ran)
            /\ UNCHANGED loc
       ELSE IF statusUsesLedger(op.opts.noVersioning, loc.db)
       THEN \E queried \in BOOLEAN :
               /\ loc' = [loc EXCEPT !.unit = loc.found[loc.idx],
                                     !.queries = @ + 1,
                                     !.werr = IF queried THEN Nil ELSE ErrStatus("query")]
               /\ pc' = IF queried THEN "st_forward" ELSE "st_produce"
               /\ UNCHANGED <<result, chan, sess>>
       ELSE /\ loc' = [loc EXCEPT !.unit = loc.found[loc.idx]]
            /\ pc' = "st_forward"
            /\ UNCHANGED <<result, chan, sess>>
    /\ UNCHANGED <<tableExists, ledger, op, events, ran, startLedger, consumer, round, run>>

\* options.send(event) in the loop of Status.
StatusForward ==
    /\ pc = "st_forward"
    /\ LET usesLedger == statusUsesLedger(op.opts.noVersioning, loc.db)
       IN Send(StatusEvent(loc.unit, usesLedger,
                           usesLedger /\ hasRow(ledger, loc.unit.Version)))
    /\ loc' = [loc EXCEPT !.idx = @ + 1]
    /\ pc' = "st_produce"
    /\ UNCHANGED <<tableExists, ledger, op, result, chan, ran, startLedger, sess,
                   consumer, round, run>>

----------------------------------------------------------------------------
\* The consumer of the sink is a goroutine of the caller: it may stop taking
\* events at any moment of a call.
ConsumerStops ==
    /\ pc \notin {"idle", "done", "panic"}
    /\ chan = "open"
    /\ consumer = "receiving"
    /\ consumer' = "stopped"
    /\ UNCHANGED <<tableExists, ledger, pc, op, loc, result, chan, events, ran,
                   startLedger, sess, round, run>>

----------------------------------------------------------------------------
\* The caller has the return value; the collected sequence, the options and
\* the locals of the call are discarded, the ledger stays.
Returned ==
    /\ pc = "done"
    /\ pc' = "idle"
    /\ op' = [name |-> "none", dir |-> {}, version |-> 0, opts |-> NoOptions]
    /\ loc' = NoLoc
    /\ result' = Nil
    /\ chan' = "nil"
    /\ events' = <<>>
    /\ ran' = <<>>
    /\ startLedger' = <<>>
    /\ consumer' = "receiving"
    /\ round' = RoundAtReturn(op, result, ran, startLedger, tableExists)
    /\ UNCHANGED run
    /\ UNCHANGED <<tableExists, ledger, sess>>

Next ==
    \/ UpTo
    \/ Up
    \/ UpByOne
    \/ UpToLoop
    \/ UpToNext
    \/ UpToRun
    \/ UpToAfter
    \/ UpMissingCount
    \/ UpMissingNext
    \/ UpMissingRun
    \/ UpMissingAfter
    \/ UpFoundNext
    \/ UpFoundRun
    \/ UpFoundAfter
    \/ Down
    \/ DownBefore
    \/ DownRun
    \/ DownAfter
    \/ UpNoVersioningNext
    \/ UpNoVersioningRun
    \/ UpNoVersioningAfter
    \/ DownNoVersioningCount
    \/ DownNoVersioningNext
    \/ DownNoVersioningRun
    \/ DownNoVersioningAfter
    \/ DownTo
    \/ DownToLoop
    \/ DownToRun
    \/ Reset
    \/ ResetNext
    \/ ResetRun
    \/ Status
    \/ StatusProduce
    \/ StatusForward
    \/ Returned

\* The operations with a consumer that takes every event.
Spec == Init /\ [][Next]_vars

\* The steps of a running call: every action but the entries of the
\* operations and the hand-over of the return value.
Progress ==
    \/ UpToLoop
    \/ UpToNext
    \/ UpToRun
    \/ UpToAfter
    \/ UpMissingCount
    \/ UpMissingNext
    \/ UpMissingRun
    \/ UpMissingAfter
    \/ UpFoundNext
    \/ UpFoundRun
    \/ UpFoundAfter
    \/ DownBefore
    \/ DownRun
    \/ DownAfter
    \/ UpNoVersioningNext
    \/ UpNoVersioningRun
    \/ UpNoVersioningAfter
    \/ DownNoVersioningCount
    \/ DownNoVersioningNext
    \/ DownNoVersioningRun
    \/ DownNoVersioningAfter
    \/ DownToLoop
    \/ DownToRun
    \/ ResetNext
    \/ ResetRun
    \/ StatusProduce
    \/ StatusForward

\* The operations with a consumer that takes every event, the goroutine of
\* a running call being scheduled until the call returns: each unit run
\* returns and each send is taken.
SpecLive == Init /\ [][Next]_vars /\ WF_vars(Progress)

NextConsumer ==
    \/ Next
    \/ ConsumerStops

\* The operations with a consumer that may stop taking events.
SpecConsumer == Init /\ [][NextConsumer]_vars

----------------------------------------------------------------------------
\* Unit runs in detail.  Spec follows a unit run as one step that succeeds
\* or fails; SpecUnit follows single runs of every kind of unit with a
\* failure at every call that can fail.

UnitVersions == {1, 2}

\* SQL scripts, plain or templated, with or without transaction.
SQLUnits ==
    {[Version |-> v, ext |-> e, useTx |-> tx, statements |-> n,
      Registered |-> FALSE, hasFn |-> FALSE] :
        v \in UnitVersions, e \in {".sql", ".tpl.sql"}, tx \in BOOLEAN,
        n \in 0..MaxStatements}

\* Code units, registered or not, with or without the function of the
\* direction.
GoUnits ==
    {[Version |-> v, ext |-> ".go", useTx |-> TRUE, statements |-> 0,
      Registered |-> r, hasFn |-> f] :
        v \in UnitVersions, r \in BOOLEAN, f \in BOOLEAN}

\* The units of a run, with those whose source has another extension.
Units ==
    SQLUnits \cup GoUnits \cup
    {[Version |-> v, ext |-> ".txt", useTx |-> FALSE, statements |-> 0,
      Registered |-> FALSE, hasFn |-> FALSE] : v \in UnitVersions}

\* The ledgers a run starts from: the base row and the rows of applied units.
UnitLedgers ==
    {<<Row(0, TRUE)>> \o s :
        s \in {<<>>, <<Row(1, TRUE)>>, <<Row(2, TRUE)>>,
               <<Row(1, TRUE), Row(2, TRUE)>>, <<Row(2, TRUE), Row(1, TRUE)>>}}

InitUnit ==
    /\ tableExists = TRUE
    /\ ledger \in UnitLedgers
    /\ pc = "idle"
    /\ op = [name |-> "none", dir |-> {}, version |-> 0, opts |-> NoOptions]
    /\ loc = NoLoc
    /\ result = Running
    /\ chan = "nil"
    /\ events = <<>>
    /\ ran = <<>>
    /\ startLedger = ledger
    /\ sess = SessOff
    /\ consumer = "receiving"
    /\ round = RoundOff
    /\ \E m \in Units, direction \in BOOLEAN, noVersioning \in BOOLEAN,
          fail \in Failures, effects \in {<<>>, <<Statement(0, TRUE, 1)>>} :
        run = [state |-> "ready", m |-> m, direction |-> direction,
               noVersioning |-> noVersioning, fail |-> fail,
               before |-> Database(ledger, effects),
               out |-> Outcome(Database(ledger, effects), Running, FALSE, <<>>, 0)]

\* m.UpWithProvider / m.DownWithProvider on the database.
UnitRun ==
    /\ run.state = "ready"
    /\ LET out == MigrationRun(run.before, run.m, run.direction, run.noVersioning,
                               run.fail)
       IN /\ run' = [run EXCEPT !.state = "ran", !.out = out]
          /\ ledger' = out.db.rows
          /\ result' = out.err
          /\ ran' = Append(ran, Unit(run.m.Version, run.direction, out.err = Nil))
    /\ UNCHANGED <<tableExists, pc, op, loc, chan, events, startLedger, sess,
                   consumer, round>>

NextUnit ==
    \/ UnitRun

\* Single unit runs.
SpecUnit == InitUnit /\ [][NextUnit]_vars

----------------------------------------------------------------------------
\* Event equality and Verify: AreEventsEqual with the IsEqual methods of the
\* events, Provider.Verify with VerifyStatus.Ok

\* Largest time stamp of an event; 0 is the zero time.
MaxTime == 2

\* time.Time.IsZero.
IsZero(t) == t = 0

\* The nil Eventer (an interface value without a dynamic type).
NilEvent == [kind |-> "nil"]

\* StatusEvent values and pointers to them.
StatusEventValues ==
    {[kind |-> "Status", pointer |-> p, null |-> FALSE, Source |-> SourceOf(s),
      Version |-> v, Versioned |-> vd, AppliedAt |-> t] :
        p \in BOOLEAN, s \in 1..2, v \in 1..2, vd \in BOOLEAN, t \in 0..MaxTime}

VersionCountEventValues ==
    {[kind |-> "VersionCount", pointer |-> p, null |-> FALSE, Version |-> v,
      VersionSource |-> SourceOf(s), TotalVersionsLeft |-> n] :
        p \in BOOLEAN, v \in 1..2, s \in 1..2, n \in 0..1}

\* ApplyAT is time.Now(), never the zero time.
VersionApplyEventValues ==
    {[kind |-> "VersionApply", pointer |-> p, null |-> FALSE, From |-> f,
      FromSource |-> SourceOf(fs), To |-> t, ToSource |-> SourceOf(ts), ApplyAT |-> at,
      Missing |-> fl[1], Applied |-> fl[2], Versioned |-> fl[3], Down |-> fl[4]] :
        p \in BOOLEAN, f \in 1..2, fs \in 1..2, t \in 1..2, ts \in 1..2,
        at \in 1..MaxTime, fl \in BOOLEAN \X BOOLEAN \X BOOLEAN \X BOOLEAN}

\* The values an Eventer can hold: nothing, an event of one of the three
\* kinds, a pointer to one, or a nil pointer of the pointer type of a kind
\* (Eventer((*StatusEvent)(nil)) and the like).
Eventers ==
    {NilEvent}
        \cup {[kind |-> k, pointer |-> TRUE, null |-> TRUE] :
                k \in {"Status", "VersionCount", "VersionApply"}}
        \cup StatusEventValues \cup VersionCountEventValues \cup VersionApplyEventValues

\* StatusEvent.IsEqual.  The type assertions `e.(StatusEvent)` and
\* `e.(*StatusEvent)` with the nil check of the pointer: e is a StatusEvent
\* or a pointer to one that is not nil.
StatusEventIsEqual(se, e) ==
    /\ e.kind = "Status" /\ ~e.null
    /\ se.Versioned = e.Versioned
    /\ IsZero(se.AppliedAt) = IsZero(e.AppliedAt)
    /\ se.Version = e.Version
    /\ se.Source = e.Source

\* VersionCountEvent.IsEqual.
VersionCountEventIsEqual(e, o) ==
    /\ o.kind = "VersionCount" /\ ~o.null
    /\ e.Version = o.Version
    /\ e.VersionSource = o.VersionSource
    /\ e.TotalVersionsLeft = o.TotalVersionsLeft

\* VersionApplyEvent.IsEqual.
VersionApplyEventIsEqual(e, o) ==
    /\ o.kind = "VersionApply" /\ ~o.null
    /\ e.From = o.From
    /\ e.FromSource = o.FromSource
    /\ e.To = o.To
    /\ e.ToSource = o.ToSource
    /\ e.Missing = o.Missing
    /\ e.Applied = o.Applied
    /\ e.Versioned = o.Versioned
    /\ e.Down = o.Down

\* e1.IsEqual(e2), with what it returns or does: "true", "false", or a
\* run-time panic.  The methods have value receivers, so the call through a
\* pointer copies the value it points to, and panics when the pointer is nil.
IsEqual(e1, e2) ==
    IF e1.null THEN "panic"
    ELSE IF (IF e1.kind = "Status" THEN StatusEventIsEqual(e1, e2)
             ELSE IF e1.kind = "VersionCount" THEN VersionCountEventIsEqual(e1, e2)
             ELSE VersionApplyEventIsEqual(e1, e2))
         THEN "true"
         ELSE "false"

AreEventsEqual(e1, e2) ==
    IF e1 = NilEvent THEN (IF e2 = NilEvent THEN "true" ELSE "false")
    ELSE IF e2 = NilEvent THEN "false"
    ELSE IsEqual(e1, e2)

\* AreEventsEqual(e1, e2), AreEventsEqual(e2, e1) and AreEventsEqual(e1, e1).
EventsCompared ==
    /\ run.state = "events"
    /\ run' = [run EXCEPT !.state = "compared",
                          !.forward = AreEventsEqual(run.e1, run.e2),
                          !.backward = AreEventsEqual(run.e2, run.e1),
                          !.self = AreEventsEqual(run.e1, run.e1)]
    /\ UNCHANGED <<tableExists, ledger, pc, op, loc, result, chan, events, ran,
                   startLedger, sess, consumer, round>>

\* The bitwise operators of the status word.
RECURSIVE BitAnd(_, _)
BitAnd(a, b) ==
    IF a = 0 \/ b = 0 THEN 0
    ELSE (a % 2) * (b % 2) + 2 * BitAnd(a \div 2, b \div 2)

RECURSIVE BitOr(_, _)
BitOr(a, b) ==
    IF a = 0 THEN b
    ELSE IF b = 0 THEN a
    ELSE (IF a % 2 = 1 \/ b % 2 = 1 THEN 1 ELSE 0) + 2 * BitOr(a \div 2, b \div 2)

VerifyStatusOK == 0

\* The second const block: iota is 0, 1, 2 on its three lines, 1 << iota
\* is 2 ^ iota.
VerifyStatusErr == 2 ^ 0

VerifyStatusTsMigrations == 2 ^ 1

VerifyStatusTplSql == BitOr(VerifyStatusErr, 2 ^ 2)

\* VerifyStatus.Ok.
Ok(vs) ==
    \/ vs.Status = VerifyStatusOK
    \/ BitAnd(vs.Status, VerifyStatusTsMigrations) = VerifyStatusTsMigrations

\* The source trees as Verify collects them: per version no file or one
\* file, ascending by version; of a file the version, the extension, and
\* whether a templated script parses and executes.
VerifyTrees ==
    LET files == {[ext |-> e, compiles |-> TRUE] : e \in {"", ".sql", ".tpl.sql", ".go"}}
                     \cup {[ext |-> ".tpl.sql", compiles |-> FALSE]}
        tree(f) == LET vs == SetToSeq({v \in Versions : f[v].ext # ""})
                   IN [i \in 1..Len(vs) |->
                          [Version |-> vs[i], ext |-> f[vs[i]].ext,
                           compiles |-> f[vs[i]].compiles]]
    IN {tree(f) : f \in [Versions -> files]}

\* Migrations.versioned: the units without a timestamp-style version.
versioned(ms) == SelectSeq(ms, LAMBDA m : m.Version \notin TimestampVersions)

\* The errors of the templated scripts among the units.
tplErrors(ms) ==
    LET bad == SelectSeq(ms, LAMBDA m : m.ext = ".tpl.sql" /\ ~m.compiles)
    IN [i \in 1..Len(bad) |-> bad[i].Version]

\* Provider.Verify; errors.Join gives nil (the empty list) when there is no
\* error.
Verify(migrations, fail) ==
    IF fail = "collect"
    THEN [Status |-> VerifyStatusErr, Error |-> <<"failed to get migrations">>]
    ELSE IF fail = "timestamped"
    THEN [Status |-> VerifyStatusErr, Error |-> <<"failed to get timestamped migrations">>]
    ELSE IF fail = "versioned"
    THEN [Status |-> VerifyStatusErr, Error |-> <<"failed to get migrations">>]
    ELSE LET tsMigrations == timestamped(migrations)
             vMigrations  == versioned(migrations)
             errs         == tplErrors(vMigrations) \o tplErrors(tsMigrations)
             s1           == IF Len(tsMigrations) > 0
                             THEN BitOr(VerifyStatusOK, VerifyStatusTsMigrations)
                             ELSE VerifyStatusOK
             s2           == IF errs # <<>> THEN BitOr(s1, VerifyStatusTplSql) ELSE s1
         IN [Status |-> s2, Error |-> errs]

\* vs := p.Verify(dir); vs.Ok().
Verified ==
    /\ run.state = "verify"
    /\ LET vs == Verify(run.migrations, run.fail)
       IN run' = [run EXCEPT !.state = "verified", !.vs = vs, !.ok = Ok(vs)]
    /\ UNCHANGED <<tableExists, ledger, pc, op, loc, result, chan, events, ran,
                   startLedger, sess, consumer, round>>

\* The arguments of a comparison or of a verification; of Verify also the
\* call that fails, if any.
InitFunctions ==
    /\ tableExists = FALSE
    /\ ledger = <<>>
    /\ pc = "idle"
    /\ op = [name |-> "none", dir |-> {}, version |-> 0, opts |-> NoOptions]
    /\ loc = NoLoc
    /\ result = Nil
    /\ chan = "nil"
    /\ events = <<>>
    /\ ran = <<>>
    /\ startLedger = <<>>
    /\ sess = SessOff
    /\ consumer = "receiving"
    /\ round = RoundOff
    /\ \/ \E e1 \in Eventers, e2 \in Eventers :
            run = [state |-> "events", e1 |-> e1, e2 |-> e2,
                   forward |-> "", backward |-> "", self |-> ""]
       \/ \E migrations \in VerifyTrees,
             fail \in {"none", "collect", "timestamped", "versioned"} :
            run = [state |-> "verify", migrations |-> migrations, fail |-> fail,
                   vs |-> [Status |-> VerifyStatusOK, Error |-> <<>>], ok |-> FALSE]

NextFunctions ==
    \/ EventsCompared
    \/ Verified

\* Comparisons of two events and verifications of a source tree.
SpecFunctions == InitFunctions /\ [][NextFunctions]_vars

TypeOK ==
    /\ tableExists \in BOOLEAN
    /\ pc \in {"idle", "done", "up_loop", "up_next", "up_run", "up_after",
               "uwm_count", "uwm_missing", "uwm_mrun", "uwm_mafter",
               "uwm_found", "uwm_frun", "uwm_fafter",
               "down_before", "down_run", "down_after",
               "unv_next", "unv_run", "unv_after",
               "dnv_count", "dnv_next", "dnv_run", "dnv_after",
               "dt_loop", "dt_run", "rs_next", "rs_run",
               "st_produce", "st_forward", "panic"}
    /\ chan \in {"nil", "open", "closed"}
    /\ consumer \in {"receiving", "stopped"}
    /\ \A i \in 1..Len(ledger) : ledger[i].versionID \in 0..MaxVersionID

----------------------------------------------------------------------------
\* Vocabulary of the properties

\* The call runs in versioned mode.
Versioned == ~op.opts.noVersioning

Forward == {"UpTo", "Up", "UpByOne"}

Bulk == {"UpTo", "Up"}

\* The ledger as the call found it, after the first-run bootstrap.
StartRows == IF startLedger = <<>> THEN <<Row(0, TRUE)>> ELSE startLedger

StartVersion == GetDBVersion(StartRows)

KnownAtStart == {StartRows[i].versionID : i \in 1..Len(StartRows)}

\* The collected versions of the call (in range for the forward operations).
Collected ==
    IF op.name \in Forward THEN {v \in op.dir : v > 0 /\ v <= op.version}
    ELSE op.dir

\* A collected version is missing if it lies below the largest known
\* version and is not itself known.
MissingAtStart ==
    {v \in Collected : v \notin KnownAtStart /\ \E k \in KnownAtStart : v < k}

\* The sequential-only guard, where the call sets it, found no timestamp-style
\* version among the collected units: the call went on to the database.
Admitted ==
    ~(op.name \in Forward /\ op.opts.sequentialVersionsOnly
        /\ Collected \cap TimestampVersions # {})

AllOk == \A i \in 1..Len(ran) : ran[i].Ok

RanVersions == [i \in 1..Len(ran) |-> ran[i].Version]

\* The rows a sequence of successful up runs adds to the ledger.
RowsOf(vs) == [i \in 1..Len(vs) |-> Row(vs[i], TRUE)]

OkRuns == SelectSeq(ran, LAMBDA u : u.Ok)

Ascending(vs) == \A i \in 1..Len(vs), j \in 1..Len(vs) : i < j => vs[i] < vs[j]

----------------------------------------------------------------------------
\* C1: in versioned mode with no missing migrations, UpTo(target) applies the
\* pending collected units one at a time in strictly ascending version order,
\* never one above target, and (no unit failing) returns nil with the
\* current version at the largest collected version <= target; the ledger is
\* unchanged when no collected unit lies above the current version.
C1_Pending == {v \in Collected : v > StartVersion}

C1_UpToAscendingToTarget ==
    (pc # "idle" /\ Versioned /\ Admitted /\ op.name \in Bulk
        /\ MissingAtStart = {}) =>
        /\ Ascending(RanVersions)
        /\ \A i \in 1..Len(ran) : ran[i].Up /\ ran[i].Version \in C1_Pending
        /\ \A i \in 1..Len(ran) : ran[i].Version <= op.version
        /\ ledger = StartRows \o RowsOf([i \in 1..Len(OkRuns) |-> OkRuns[i].Version])
        /\ (pc = "done" /\ AllOk) =>
              /\ result.kind = "nil"
              /\ RanVersions = SetToSeq(C1_Pending)
              /\ IF C1_Pending = {}
                 THEN ledger = StartRows
                 ELSE GetDBVersion(ledger) = Max(Collected)

C1_Witness ==
    /\ pc = "done" /\ op.name = "UpTo" /\ ~op.opts.allowMissing
    /\ op.dir = {1, 2, 3} /\ op.version = 2 /\ StartVersion = 0
    /\ RanVersions = <<1, 2>> /\ AllOk
    /\ result.kind = "nil" /\ GetDBVersion(ledger) = 2

----------------------------------------------------------------------------
\* C2: from ledger version 0 with n collected units, n successive UpByOne
\* calls each apply exactly one unit, together visiting every collected
\* version in ascending order exactly once; call n+1 applies nothing and
\* returns ErrNoNextVersion.
C2_UpByOneVisitsAll ==
    (pc = "done" /\ sess.on) =>
        LET all == SetToSeq(sess.dir)
            n   == Len(all)
            k   == sess.calls
        IN /\ op.name = "UpByOne"
           /\ k \in 1..(n + 1)
           /\ k <= n =>
                /\ result.kind = "nil"
                /\ ran = <<Unit(all[k], TRUE, TRUE)>>
                /\ sess.visited = SubSeq(all, 1, k)
           /\ k = n + 1 =>
                /\ result.kind = "ErrNoNextVersion"
                /\ ran = <<>>
                /\ sess.visited = all
                /\ AppliedVersions(ledger) \ {0} = sess.dir

C2_Witness ==
    /\ pc = "done" /\ sess.on /\ sess.dir = {1, 2, 3}
    /\ sess.calls = 4 /\ sess.visited = <<1, 2, 3>>
    /\ result.kind = "ErrNoNextVersion"

----------------------------------------------------------------------------
\* C3: when no collected unit remains to be applied, Up and UpTo return nil
\* and UpByOne returns ErrNoNextVersion, on the plain path and on the
\* allow-missing path, and the ledger is left unchanged.
C3_NothingToApply == \A v \in Collected : v \in KnownAtStart

C3_ExhaustionResult ==
    (pc # "idle" /\ Versioned /\ Admitted /\ op.name \in Forward
        /\ C3_NothingToApply) =>
        /\ ran = <<>>
        /\ ledger = StartRows
        /\ pc = "done" =>
              result.kind = IF op.name = "UpByOne" THEN "ErrNoNextVersion" ELSE "nil"

C3_Witness ==
    /\ pc = "done" /\ op.name = "UpByOne" /\ op.opts.allowMissing
    /\ Collected = {1, 2} /\ C3_NothingToApply
    /\ result.kind = "ErrNoNextVersion"

----------------------------------------------------------------------------
\* C4: with a missing collected unit and allow-missing not set, UpTo, Up and
\* UpByOne fail with one error that lists every missing version with its
\* source; no unit is applied, no ledger row is inserted or deleted and no
\* event is sent.
C4_MissingList ==
    LET vs == SetToSeq(MissingAtStart)
    IN [i \in 1..Len(vs) |-> [Version |-> vs[i], Source |-> SourceOf(vs[i])]]

C4_MissingFailsAtomically ==
    (pc # "idle" /\ Versioned /\ Admitted /\ op.name \in Forward
        /\ ~op.opts.allowMissing /\ MissingAtStart # {}) =>
        /\ pc = "done"
        /\ result.kind = "MissingMigrationsErr"
        /\ result.detail = C4_MissingList
        /\ ran = <<>>
        /\ ledger = startLedger
        /\ events = <<>>

C4_Witness ==
    /\ pc = "done" /\ op.name \in Forward /\ op.opts.events
    /\ result.kind = "MissingMigrationsErr"
    /\ Len(result.detail) = 2
    /\ Cardinality(MissingAtStart) = 2

----------------------------------------------------------------------------
\* C5: findMissingMigrations(known, collected), known not empty, returns
\* exactly the collected units whose version is not known and is less than
\* the maximum known version, in ascending version order.
C5_Expected ==
    LET vs == SetToSeq({v \in Collected :
                    v \notin KnownAtStart /\ v < Max(KnownAtStart)})
    IN [i \in 1..Len(vs) |-> Migration(vs[i])]

C5_FindMissingExact ==
    (pc # "idle" /\ Versioned /\ Admitted /\ op.name \in Forward) =>
        /\ KnownAtStart # {}
        /\ loc.missing =
              findMissingMigrations(listAllDBVersions(StartRows), loc.found)
        /\ loc.missing = C5_Expected

C5_Witness ==
    /\ pc # "idle" /\ op.name \in Forward
    /\ Len(loc.missing) = 2
    /\ Len(loc.found) = 3
    /\ Cardinality(KnownAtStart) = 2

----------------------------------------------------------------------------
\* C6: with allow-missing set, UpTo on a ledger with missing units applies
\* all missing units first in ascending version order, then every remaining
\* collected unit that is not known, in collection order, and returns nil
\* with every collected unit in range applied and none applied twice.
C6_Remaining == {v \in Collected : v \notin KnownAtStart /\ v \notin MissingAtStart}

C6_AllowMissingCompletes ==
    (pc = "done" /\ Admitted /\ op.name \in Bulk /\ op.opts.allowMissing
        /\ MissingAtStart # {} /\ AllOk) =>
        /\ result.kind = "nil"
        /\ RanVersions = SetToSeq(MissingAtStart) \o SetToSeq(C6_Remaining)
        /\ \A v \in Collected : v \in AppliedVersions(ledger)

----------------------------------------------------------------------------
\* C7: during allow-missing reconciliation the current ledger version is
\* re-read after each applied missing unit; if it differs from the version
\* just applied the run returns an error at once and no further unit,
\* missing or remaining, is applied in that call.
C7_VersionAfter(i) ==
    LET oks == SelectSeq(SubSeq(ran, 1, i), LAMBDA u : u.Ok)
    IN GetDBVersion(StartRows \o RowsOf([j \in 1..Len(oks) |-> oks[j].Version]))

C7_MismatchAborts ==
    (pc # "idle" /\ op.name \in Bulk /\ op.opts.allowMissing) =>
        \A i \in 1..Len(ran) :
            (/\ ran[i].Ok
             /\ ran[i].Version \in MissingAtStart
             /\ C7_VersionAfter(i) # ran[i].Version) =>
                /\ i = Len(ran)
                /\ pc \in {"uwm_mafter", "done"}
                /\ pc = "done" => result.kind = "ErrMissingMismatch"

C7_Witness ==
    /\ pc = "done" /\ op.name \in Bulk /\ op.opts.allowMissing
    /\ result.kind = "ErrMissingMismatch"
    /\ Cardinality(MissingAtStart) = 2
    /\ Len(ran) = 1 /\ ran[1].Ok /\ ran[1].Version \in MissingAtStart

----------------------------------------------------------------------------
\* C8: the current database version the engine reads equals the maximum
\* versionID among the ledger rows whose latest state is applied, 0 when no
\* version is applied, also after a unit was applied out of version order
\* by the allow-missing reconciliation.
C8_MaxApplied(rows) ==
    LET applied == {v \in 0..MaxVersionID :
                      \E i \in 1..Len(rows) :
                          /\ rows[i].versionID = v
                          /\ rows[i].isApplied
                          /\ \A j \in (i+1)..Len(rows) : rows[j].versionID # v}
    IN IF applied = {} THEN 0 ELSE Max(applied)

----------------------------------------------------------------------------
\* C9: a successful versioned Down reverts exactly one unit, the unit whose
\* version is the current ledger version; afterwards that version is not
\* applied, the ledger state of every other version is unchanged and the
\* current version is the previous applied version.
C9_RowsOfVersion(rows, v) == SelectSeq(rows, LAMBDA r : r.versionID = v)

C9_DownRevertsCurrent ==
    (pc = "done" /\ Versioned /\ op.name = "Down" /\ result.kind = "nil") =>
        /\ ran = <<Unit(StartVersion, FALSE, TRUE)>>
        /\ StartVersion \in AppliedVersions(StartRows)
        /\ StartVersion \notin AppliedVersions(ledger)
        /\ \A v \in 0..MaxVersionID :
              v # StartVersion =>
                 C9_RowsOfVersion(ledger, v) = C9_RowsOfVersion(StartRows, v)
        /\ GetDBVersion(ledger) = Max(AppliedVersions(StartRows) \ {StartVersion})

C9_Witness ==
    /\ pc = "done" /\ op.name = "Down" /\ result.kind = "nil"
    /\ StartVersion = 3 /\ AppliedVersions(StartRows) = {0, 1, 3}
    /\ op.dir = {1, 2, 3}
    /\ GetDBVersion(ledger) = 1

----------------------------------------------------------------------------
\* C10: a versioned Down returns an error without reverting a unit, changing
\* the ledger or sending an event when no collected unit has the current
\* ledger version (version 0 included) or none has a lower version.
C10_NoCurrent == StartVersion \notin Collected

C10_NoPrevious == \A v \in Collected : v >= StartVersion

C10_DownFailsUntouched ==
    (pc # "idle" /\ Versioned /\ op.name = "Down" /\ (C10_NoCurrent \/ C10_NoPrevious)) =>
        /\ pc = "done"
        /\ result.kind = IF C10_NoCurrent THEN "ErrNoMigration" ELSE "ErrNoPrevious"
        /\ ran = <<>>
        /\ ledger = StartRows
        /\ events = <<>>

C10_Witness ==
    /\ pc = "done" /\ op.name = "Down" /\ op.opts.events
    /\ StartVersion = 1 /\ op.dir = {1, 2}
    /\ result.kind = "ErrNoPrevious"

----------------------------------------------------------------------------
\* Vocabulary of the backward operations

Descending(vs) == \A i \in 1..Len(vs), j \in 1..Len(vs) : i < j => vs[i] > vs[j]

\* The ledger after the successful runs among the first n backward runs.
RECURSIVE RowsAfterDowns(_, _)
RowsAfterDowns(rows, n) ==
    IF n = 0 THEN rows
    ELSE LET before == RowsAfterDowns(rows, n - 1)
         IN IF ran[n].Ok THEN SelectSeq(before, LAMBDA r : r.versionID # ran[n].Version)
            ELSE before

----------------------------------------------------------------------------
\* C11: in versioned mode DownTo(target) reverts, one run after the other,
\* the unit at the current ledger version, in descending order, never a unit
\* whose version is <= target, and returns nil as soon as the current
\* version is <= target or is 0 (version 0 is success, not an error).
C11_Reverts ==
    \A i \in 1..Len(ran) :
        /\ ~ran[i].Up
        /\ ran[i].Version = GetDBVersion(RowsAfterDowns(StartRows, i - 1))
        /\ ran[i].Version > op.version

C11_DownToStopsAtTarget ==
    (pc # "idle" /\ Versioned /\ op.name = "DownTo") =>
        /\ C11_Reverts
        /\ Descending([i \in 1..Len(OkRuns) |-> OkRuns[i].Version])
        /\ ledger \in {startLedger, RowsAfterDowns(StartRows, Len(ran))}
        /\ (pc = "dt_loop" /\ ran # <<>>) => AllOk
        /\ (pc = "done" /\ AllOk) =>
              /\ result.kind = "nil"
              /\ GetDBVersion(ledger) <= op.version

\* The same without the result: what DownTo reverts, and where it stops
\* when it returns nil.
C11_RevertsOnly ==
    (pc # "idle" /\ Versioned /\ op.name = "DownTo") =>
        /\ C11_Reverts
        /\ Descending([i \in 1..Len(OkRuns) |-> OkRuns[i].Version])
        /\ (pc = "done" /\ result.kind = "nil") => GetDBVersion(ledger) <= op.version
        /\ (pc = "done" /\ AllOk /\ GetDBVersion(ledger) \in Collected \cup {0}) =>
              result.kind = "nil"

----------------------------------------------------------------------------
\* C12: for every N, UpTo(N) on a ledger at version 0 followed by DownTo(0)
\* on the same source tree leaves the ledger at version 0 with no version
\* applied, and the versions are reverted in exactly the reverse of the
\* order in which they were applied.
C12_AfterUpTo == round.on /\ ~round.noVersioning /\ op.name = "DownTo"

C12_UpToThenDownToZero ==
    (C12_AfterUpTo /\ pc # "idle") =>
        /\ Versioned /\ op.version = 0 /\ op.dir = round.dir
        /\ StartRows = <<Row(0, TRUE)>> \o RowsOf(round.applied)
        /\ (pc = "done" /\ AllOk) =>
              /\ result.kind = "nil"
              /\ GetDBVersion(ledger) = 0
              /\ AppliedVersions(ledger) = {0}
              /\ RanVersions = Reverse(round.applied)

C12_Witness ==
    /\ C12_AfterUpTo /\ pc = "done" /\ AllOk
    /\ round.version = 3
    /\ round.applied = <<1, 2, 3>>
    /\ RanVersions = <<3, 2, 1>>
    /\ GetDBVersion(ledger) = 0

----------------------------------------------------------------------------
\* C13: in versioned mode Reset reverts exactly the collected units whose
\* most recent ledger row says applied, in strictly descending version
\* order, skips every unit that is not applied, and on success leaves no
\* collected version applied.
C13_AppliedAtStart ==
    {v \in 0..MaxVersionID :
        \E i \in 1..Len(startLedger) :
            /\ startLedger[i].versionID = v
            /\ startLedger[i].isApplied
            /\ \A j \in (i + 1)..Len(startLedger) : startLedger[j].versionID # v}

C13_ToRevert == Collected \cap C13_AppliedAtStart

C13_ResetRevertsApplied ==
    (pc # "idle" /\ Versioned /\ op.name = "Reset") =>
        /\ Descending(RanVersions)
        /\ \A i \in 1..Len(ran) : ~ran[i].Up /\ ran[i].Version \in C13_ToRevert
        /\ \A i \in 1..Len(ran) :
              \A v \in C13_ToRevert : v > ran[i].Version =>
                 \E j \in 1..(i - 1) : ran[j].Version = v
        /\ ledger = RowsAfterDowns(startLedger, Len(ran))
        /\ (pc = "done" /\ AllOk) =>
              /\ result.kind = "nil"
              /\ RanVersions = Reverse(SetToSeq(C13_ToRevert))
              /\ \A v \in Collected : v \notin AppliedVersions(ledger)

C13_Witness ==
    /\ pc = "done" /\ Versioned /\ op.name = "Reset" /\ result.kind = "nil"
    /\ op.dir = {1, 2, 3}
    /\ C13_AppliedAtStart = {0, 1, 3}
    /\ RanVersions = <<3, 1>> /\ AllOk
    /\ AppliedVersions(ledger) = {0}

----------------------------------------------------------------------------
\* C14: in no-versioning mode Up and UpTo(target) apply every collected unit
\* with version <= target in ascending order whatever the ledger holds,
\* never create, read or change the ledger table, and a second identical
\* call applies every one of those units a second time.
C14_Repeated == round.on /\ round.noVersioning

C14_NoVersioningUp ==
    (pc # "idle" /\ ~Versioned /\ Admitted /\ op.name \in Bulk) =>
        /\ tableExists = (startLedger # <<>>)
        /\ ledger = startLedger
        /\ \A i \in 1..Len(ran) : ran[i].Up
        /\ RanVersions = SubSeq(SetToSeq(Collected), 1, Len(ran))
        /\ (pc = "done" /\ AllOk) =>
              /\ result.kind = "nil"
              /\ RanVersions = SetToSeq(Collected)
        /\ C14_Repeated =>
              /\ op.name = round.name /\ op.dir = round.dir /\ op.version = round.version
              /\ round.applied = SetToSeq(Collected)
              /\ (pc = "done" /\ AllOk) => RanVersions = round.applied

C14_Witness ==
    /\ pc = "done" /\ ~Versioned /\ op.name = "UpTo" /\ C14_Repeated
    /\ op.dir = {1, 2, 3} /\ op.version = 2
    /\ round.applied = <<1, 2>>
    /\ RanVersions = <<1, 2>> /\ AllOk
    /\ ~tableExists /\ ledger = <<>>

----------------------------------------------------------------------------
\* C15: in no-versioning mode Down reverts only the latest collected
\* migration: per call exactly one unit, the one with the highest version,
\* is run in the down direction, for any collected sequence with at least
\* one unit.
C15_DownRevertsLatestOnly ==
    (pc = "done" /\ ~Versioned /\ op.name = "Down" /\ Collected # {} /\ AllOk) =>
        /\ result.kind = "nil"
        /\ ran = <<Unit(Max(Collected), FALSE, TRUE)>>

----------------------------------------------------------------------------
\* Vocabulary of the event claims

Applying == {"UpTo", "Up", "UpByOne", "Down", "DownTo", "Reset"}

ApplyEvents == SelectSeq(events, LAMBDA e : e.type = "VersionApply")

CountEvents == SelectSeq(events, LAMBDA e : e.type = "VersionCount")

\* The unit an apply event is about.
EventUnit(e) == IF e.Down THEN e.From ELSE e.To

\* The call is at a unit run whose before-event has been sent.
AtRun == pc \in {"up_run", "uwm_mrun", "uwm_frun", "down_run", "unv_run", "dnv_run",
                 "dt_run", "rs_run"}

\* The call is past a successful unit run whose after-event is still to be sent.
AtAfter == pc \in {"up_after", "uwm_mafter", "uwm_fafter", "down_after", "unv_after",
                   "dnv_after"}

----------------------------------------------------------------------------
\* C16: for every operation given a sink (Up, UpTo, UpByOne, Down, DownTo,
\* Reset, versioned or not) every unit run is bracketed: a VersionApplyEvent
\* with Applied = false is sent before the run starts and the matching
\* event with Applied = true after it succeeds; after a failed run no
\* Applied = true event is sent.
C16_Bracketing ==
    LET a == ApplyEvents
        n == Len(ran) + (IF AtRun THEN 1 ELSE 0)
        k == Len(OkRuns) - (IF AtAfter THEN 1 ELSE 0)
    IN /\ Len(a) = n + k
       /\ \A i \in 1..Len(ran) :
             /\ 2 * i - 1 <= Len(a)
             /\ ~a[2 * i - 1].Applied
             /\ EventUnit(a[2 * i - 1]) = ran[i].Version
             /\ a[2 * i - 1].Down = ~ran[i].Up
       /\ \A i \in 1..Len(a) :
             (i % 2 = 0) => a[i] = [a[i - 1] EXCEPT !.Applied = TRUE]
       /\ \A i \in 1..Len(ran) :
             ~ran[i].Ok => \A j \in 1..Len(a) :
                              a[j].Applied => EventUnit(a[j]) # ran[i].Version

C16_EveryRunBracketed ==
    (pc \notin {"idle", "panic"} /\ op.name \in Applying /\ op.opts.events) =>
        C16_Bracketing

\* The same for every operation but the versioned DownTo and Reset.
C16_BracketedButDownToReset ==
    (/\ pc \notin {"idle", "panic"} /\ op.name \in Applying /\ op.opts.events
     /\ ~(Versioned /\ op.name \in {"DownTo", "Reset"})) =>
        C16_Bracketing

----------------------------------------------------------------------------
\* C17: in every run of an operation given a sink that applies or reverts at
\* least one unit, exactly one VersionCountEvent is sent, and it is sent
\* before the first VersionApplyEvent of the run.
C17_CountFirst ==
    /\ Len(CountEvents) = 1
    /\ events[1].type = "VersionCount"

C17_OneCountBeforeApplies ==
    (/\ pc \notin {"idle", "panic"} /\ op.name \in Applying /\ op.opts.events
     /\ ran # <<>>) =>
        C17_CountFirst

\* The same for every operation but the versioned DownTo and Reset.
C17_OneCountButDownToReset ==
    (/\ pc \notin {"idle", "panic"} /\ op.name \in Applying /\ op.opts.events
     /\ (ran # <<>> \/ ApplyEvents # <<>>)
     /\ ~(Versioned /\ op.name \in {"DownTo", "Reset"})) =>
        C17_CountFirst

----------------------------------------------------------------------------
\* C18: no operation sends an event on the sink after the sink has been
\* closed and none closes it a second time, whatever the operation and its
\* options (DownTo and Reset in no-versioning mode with close-on-completion
\* included): no call ends in the panic of a send on, or a close of, a
\* closed channel.
C18_NoSendAfterCloseNoDoubleClose ==
    /\ pc # "panic"
    /\ result.kind # "panic"

\* The same for every operation but the no-versioning DownTo and Reset.
C18_SafeButDownToReset ==
    (pc # "idle" /\ ~(~Versioned /\ op.name \in {"DownTo", "Reset"})) =>
        C18_NoSendAfterCloseNoDoubleClose

----------------------------------------------------------------------------
\* C19: given a sink with close-on-completion, each of Up, UpTo, UpByOne,
\* Down, DownTo, Reset and Status closes the channel exactly once, after its
\* last event and when it returns, on success and on error; given a sink to
\* be left open, the engine never closes it.
C19_ClosedExactlyAtReturn ==
    (pc # "idle" /\ op.opts.events) =>
        IF op.opts.dontCloseChannel
        THEN chan = "open"
        ELSE /\ pc # "panic"
             /\ chan = "closed" <=> pc = "done"

\* The same for every operation but DownTo and Reset.
C19_ClosedButDownToReset ==
    (pc # "idle" /\ op.opts.events /\ op.name \notin {"DownTo", "Reset"}) =>
        IF op.opts.dontCloseChannel
        THEN chan = "open"
        ELSE /\ pc # "panic"
             /\ chan = "closed" <=> pc = "done"

----------------------------------------------------------------------------
\* C20: with a sink, no event is dropped, duplicated or reordered: the
\* consumer receives exactly the events the operation sent, in the order of
\* the sends; and once the consumer has stopped receiving, the operation
\* blocks at its next send for good: it takes no further step, so it never
\* returns and applies no further migration.

\* The next effect of the running call is a send on the sink.
C20_AtSend ==
    \/ pc = "up_loop" /\ loc.sendTotal
    \/ pc = "up_next" /\ NextIndex(loc.found, loc.current) # 0
    \/ pc = "uwm_missing" /\ loc.idx <= Len(loc.missing)
    \/ pc = "uwm_found" /\ skipApplied(loc.found, loc.lookupApplied, loc.idx) <= Len(loc.found)
    \/ pc = "unv_next" /\ loc.idx <= Len(loc.found)
                       /\ loc.found[loc.idx].Version <= loc.target
    \/ pc = "dnv_count" /\ Len(loc.found) > 0
    \/ pc = "dnv_next" /\ loc.idx >= loc.finalI
    \/ pc \in {"up_after", "uwm_count", "uwm_mafter", "uwm_fafter", "down_before",
               "down_after", "unv_after", "dnv_after", "st_forward"}

C20_Blocked == chan = "open" /\ consumer = "stopped" /\ C20_AtSend

\* The events eventsStatus has handed to the loop of Status so far and the
\* loop has forwarded.
C20_StatusEvents ==
    [i \in 1..(loc.idx - 1) |->
        StatusEvent(loc.found[i], Versioned /\ loc.db,
                    Versioned /\ loc.db /\ hasRow(ledger, loc.found[i].Version))]

\* What the consumer has received is what the operation has sent up to its
\* position: one event per unit handed over by Status; for the operations
\* that apply or revert units the count event first (once the first send
\* is past) and the bracket of every unit run in the order of the runs.
C20_Received ==
    (pc # "idle" /\ op.opts.events) =>
        IF op.name = "Status"
        THEN events = C20_StatusEvents
        ELSE IF Versioned /\ op.name \in {"DownTo", "Reset"}
        THEN events = <<>>
        ELSE /\ C16_Bracketing
             /\ Len(events) = Len(CountEvents) + Len(ApplyEvents)
             /\ Len(CountEvents) <= 1
             /\ (ran # <<>> \/ ApplyEvents # <<>>) => C17_CountFirst

C20_DeliveredOrBlocked ==
    /\ []C20_Received
    /\ [][~C20_Blocked]_vars

C20_Witness ==
    /\ C20_Blocked
    /\ op.name = "UpTo" /\ pc = "up_after"
    /\ RanVersions = <<1>> /\ Len(events) = 2
    /\ AppliedVersions(ledger) = {0, 1}

----------------------------------------------------------------------------
\* Vocabulary of Status

\* Status runs in versioned mode: the option is not set and the call has a
\* database handle (the test `noVersioning || db == nil` of eventsStatus).
StatusVersioned == ~op.opts.noVersioning /\ loc.db

\* The call is a Status whose worker eventsStatus met no error.
StatusCompleted == op.name = "Status" /\ pc = "done" /\ loc.werr = Nil

\* The ledger table existed when the call started (the table is created
\* with its base row, which no operation removes).
TableAtStart == startLedger # <<>>

----------------------------------------------------------------------------
\* C21: Status emits exactly one StatusEvent per collected unit, in ascending
\* version order; in versioned mode each has Versioned = true and a non-zero
\* AppliedAt exactly when the ledger records the version as applied (on a
\* pristine database every unit is pending), otherwise each has
\* Versioned = false and a zero AppliedAt.
C21_Expected ==
    LET vs == SetToSeq(op.dir)
    IN [i \in 1..Len(vs) |->
          [type |-> "Status", Source |-> SourceOf(vs[i]), Version |-> vs[i],
           Versioned |-> StatusVersioned,
           Applied |-> StatusVersioned /\ vs[i] \in AppliedVersions(ledger)]]

C21_OneEventPerUnit ==
    (StatusCompleted /\ op.opts.events) =>
        /\ events = C21_Expected
        /\ (StatusVersioned /\ ~TableAtStart) =>
              \A i \in 1..Len(events) : ~events[i].Applied

C21_Witness ==
    /\ StatusCompleted /\ op.opts.events /\ StatusVersioned
    /\ op.dir = {1, 2, 3}
    /\ AppliedVersions(ledger) = {0, 1, 3}
    /\ Len(events) = 3 /\ events[1].Applied /\ ~events[2].Applied

----------------------------------------------------------------------------
\* C22: Status never applies or reverts a unit and never inserts or deletes
\* the ledger row of a version; in versioned mode its only possible ledger
\* effect is the first-run creation of the ledger table, and in no-versioning
\* mode or without a database handle it does not access the ledger at all.
C22_StatusLeavesLedger ==
    (op.name = "Status" /\ pc # "idle") =>
        /\ ran = <<>>
        /\ \/ ledger = startLedger /\ tableExists = TableAtStart
           \/ /\ StatusVersioned /\ ~TableAtStart
              /\ tableExists /\ ledger = createVersionTable(startLedger)
        /\ ~StatusVersioned =>
              /\ ledger = startLedger /\ tableExists = TableAtStart
              /\ loc.queries = 0

C22_Witness ==
    /\ StatusCompleted /\ ~op.opts.noVersioning /\ ~loc.db
    /\ op.dir = {1, 2} /\ op.opts.events /\ Len(events) = 2
    /\ ~tableExists

----------------------------------------------------------------------------
\* C23: if the worker eventsStatus meets an error (collection, ledger
\* bootstrap or ledger query), Status returns that error in every
\* interleaving of the worker and the draining caller; it never returns nil
\* after the worker failed.
C23_WorkerErrorReturned ==
    (op.name = "Status" /\ pc = "done" /\ loc.werr # Nil) => result = loc.werr

----------------------------------------------------------------------------
\* Vocabulary of the unit runs

RunDone == run.state = "ran"

RunSQL == run.m.ext \in {".sql", ".tpl.sql"}

RunGo == run.m.ext = ".go"

\* The statements of the unit's section of the direction.
RunStatements ==
    [k \in 1..run.m.statements |-> <<"stmt", run.m.Version, run.direction, k>>]

\* The effects of the run that the database holds after it.
RunEffects ==
    SubSeq(run.out.db.effects, Len(run.before.effects) + 1, Len(run.out.db.effects))

\* The database holds what it held before the run.
RunNoEffect == run.out.db = run.before

\* The ledger has the write of the run: the row of the unit's version is
\* added (up) or removed (down), the rows of the other versions stay.
RunLedgerWritten ==
    /\ run.out.ledgerWrites = 1
    /\ IF run.direction
       THEN ledger = Append(run.before.rows, [versionID |-> run.m.Version, isApplied |-> TRUE])
       ELSE ledger = SelectSeq(run.before.rows, LAMBDA r : r.versionID # run.m.Version)

RunLedgerUntouched == run.out.ledgerWrites = 0 /\ ledger = run.before.rows

\* The call at which the run was made to fail lies on the path of the run.
RunFailureApplies ==
    \/ run.fail[1] = "parse" /\ RunSQL
    \/ run.fail[1] \in {"begin", "commit"} /\ (RunGo \/ (RunSQL /\ run.m.useTx))
    \/ run.fail[1] = "exec" /\ RunSQL /\ run.fail[2] <= run.m.statements
    \/ run.fail[1] = "fn" /\ RunGo /\ run.m.hasFn
    \/ run.fail[1] = "ledger" /\ ~run.noVersioning

\* The ledger after a run in detail is the ledger of the one-step run of the
\* operations (runUnitMode), for every kind of unit and every failure.
RunAsOneStep ==
    RunDone =>
        ledger = runUnitMode(run.before.rows, run.m, run.direction, result = Nil,
                             run.noVersioning)

----------------------------------------------------------------------------
\* C24: a transactional SQL unit run in either direction is all-or-nothing:
\* either every statement and the ledger write took effect together and the
\* run returned nil, or (on a begin, statement or ledger-write failure) no
\* statement's effect and no ledger change is visible and the run returned
\* an error.
C24_TransactionalAllOrNothing ==
    (RunDone /\ RunSQL /\ run.m.useTx) =>
        /\ \/ /\ result = Nil
              /\ RunEffects = RunStatements
              /\ IF run.noVersioning THEN RunLedgerUntouched ELSE RunLedgerWritten
           \/ /\ result # Nil
              /\ RunNoEffect
              /\ RunLedgerUntouched
        /\ result # Nil <=> RunFailureApplies

C24_Witness ==
    /\ RunDone /\ RunSQL /\ run.m.useTx /\ ~run.noVersioning
    /\ run.m.statements = 2 /\ run.fail = <<"exec", 2>>
    /\ run.out.attempted = RunStatements
    /\ result # Nil /\ RunNoEffect

----------------------------------------------------------------------------
\* C25: the statements of a non-transactional SQL unit run in order directly
\* on the connection; if statement k fails the effects of the statements
\* before k remain, the statements after k are not executed, the ledger is
\* not written and an error is returned; the ledger row is written only
\* after every statement succeeded.
C25_FailedAt ==
    IF run.fail[1] = "exec" /\ run.fail[2] <= run.m.statements THEN run.fail[2] ELSE 0

C25_NonTransactional ==
    (RunDone /\ RunSQL /\ ~run.m.useTx /\ run.fail[1] # "parse") =>
        /\ ~run.out.began
        /\ IF C25_FailedAt # 0
           THEN /\ result # Nil
                /\ RunEffects = SubSeq(RunStatements, 1, C25_FailedAt - 1)
                /\ run.out.attempted = SubSeq(RunStatements, 1, C25_FailedAt)
                /\ RunLedgerUntouched
           ELSE /\ RunEffects = RunStatements
                /\ run.out.attempted = RunStatements
        /\ run.out.ledgerWrites = 1 =>
              /\ RunEffects = RunStatements /\ result = Nil /\ RunLedgerWritten

C25_Witness ==
    /\ RunDone /\ RunSQL /\ ~run.m.useTx /\ ~run.noVersioning
    /\ run.m.statements = 2 /\ run.fail = <<"exec", 2>> /\ run.direction
    /\ Len(RunEffects) = 1 /\ result # Nil
    /\ ledger = run.before.rows

----------------------------------------------------------------------------
\* C26: a code unit that is not registered fails at once, without a
\* transaction, a function call or a ledger change; if the function of the
\* direction returns an error the transaction is rolled back, so neither the
\* function's effects nor a ledger change persist; the function call and
\* the ledger write commit together in one transaction.
C26_CodeUnit ==
    (RunDone /\ RunGo) =>
        /\ ~run.m.Registered =>
              /\ result = ErrNotRegistered
              /\ ~run.out.began /\ run.out.attempted = <<>>
              /\ RunNoEffect /\ RunLedgerUntouched
        /\ (run.m.Registered /\ run.m.hasFn /\ run.fail[1] = "fn") =>
              /\ result # Nil /\ run.out.began
              /\ RunNoEffect /\ RunLedgerUntouched
        /\ IF result = Nil
           THEN /\ run.out.began
                /\ RunEffects = (IF run.m.hasFn
                                 THEN <<<<"fn", run.m.Version, run.direction>>>>
                                 ELSE <<>>)
                /\ IF run.noVersioning THEN RunLedgerUntouched ELSE RunLedgerWritten
           ELSE RunNoEffect /\ RunLedgerUntouched

C26_Witness ==
    /\ RunDone /\ RunGo /\ ~run.m.Registered /\ run.m.hasFn
    /\ run.fail = <<"none", 0>> /\ ~run.noVersioning /\ run.direction
    /\ result = ErrNotRegistered /\ ledger = run.before.rows

----------------------------------------------------------------------------
\* C27: a versioned unit without an action for the direction (a nil function,
\* or no statement in the section of the direction) executes nothing,
\* returns nil and still writes the ledger, so the recorded version advances
\* or retreats exactly as for a unit with an action.
C27_Empty ==
    \/ RunSQL /\ run.m.statements = 0
    \/ RunGo /\ run.m.Registered /\ ~run.m.hasFn

\* The same unit with an action for the direction.
C27_NonEmpty == [run.m EXCEPT !.statements = IF RunSQL THEN 1 ELSE 0,
                              !.hasFn = RunGo]

C27_EmptyUnitWritesLedger ==
    (RunDone /\ C27_Empty /\ ~run.noVersioning /\ ~RunFailureApplies) =>
        /\ run.out.attempted = <<>> /\ RunEffects = <<>>
        /\ result = Nil
        /\ RunLedgerWritten
        /\ ledger = MigrationRun(run.before, C27_NonEmpty, run.direction, FALSE,
                                 <<"none", 0>>).db.rows

C27_Witness ==
    /\ RunDone /\ RunSQL /\ run.m.statements = 0 /\ run.m.useTx /\ ~run.noVersioning
    /\ ~run.direction /\ run.m.Version = 2 /\ run.fail = <<"none", 0>>
    /\ run.before.rows = <<[versionID |-> 0, isApplied |-> TRUE],
                           [versionID |-> 1, isApplied |-> TRUE],
                           [versionID |-> 2, isApplied |-> TRUE]>>
    /\ result = Nil /\ GetDBVersion(ledger) = 1

----------------------------------------------------------------------------
\* C28: each successful application or revert of one versioned unit changes
\* the ledger by exactly one mutation, for that unit's version only; the
\* ledger state of every other version is unchanged by that step, so no
\* step of a top-level call changes the ledger state of more than one
\* version.
RowsOfVersion(rows, v) == SelectSeq(rows, LAMBDA r : r.versionID = v)

C28_Changed == {v \in 0..MaxVersionID : RowsOfVersion(ledger, v) # RowsOfVersion(ledger', v)}

\* The step is a successful run of a versioned unit.
C28_UnitStep ==
    /\ Len(ran') = Len(ran) + 1
    /\ ran'[Len(ran')].Ok
    /\ ~op.opts.noVersioning

C28_Step ==
    /\ Cardinality(C28_Changed) <= 1
    /\ C28_UnitStep =>
          LET u == ran'[Len(ran')]
          IN /\ C28_Changed = {u.Version}
             /\ IF u.Up
                THEN ledger' = Append(ledger, [versionID |-> u.Version, isApplied |-> TRUE])
                ELSE /\ Len(ledger') = Len(ledger) - 1
                     /\ RowsOfVersion(ledger', u.Version) = <<>>

C28_OneMutationPerStep == [][C28_Step]_vars

C28_Witness ==
    /\ op.name = "DownTo" /\ Versioned /\ pc = "dt_loop"
    /\ RanVersions = <<3, 2>> /\ AllOk
    /\ AppliedVersions(startLedger) = {0, 1, 2, 3}
    /\ AppliedVersions(ledger) = {0, 1}
    /\ Len(ledger) = Len(startLedger) - 2

----------------------------------------------------------------------------
\* C29: if a multi-unit operation (UpTo, DownTo, Reset, allow-missing UpTo)
\* fails or is interrupted at unit k, every unit it completed before k stays
\* applied or reverted and recorded in the ledger, unit k leaves no ledger
\* change and no unit after k is attempted; at every point between units the
\* set of ledger-applied versions equals the set of units whose run
\* committed.
C29_Committed(up) ==
    {ran[i].Version : i \in {j \in 1..Len(ran) : ran[j].Ok /\ ran[j].Up = up}}

C29_FailedUnitStops ==
    (pc # "idle" /\ Versioned /\ op.name \in {"UpTo", "Up", "DownTo", "Reset"}) =>
        /\ \A i \in 1..(Len(ran) - 1) : ran[i].Ok
        /\ (ran # <<>> /\ ~ran[Len(ran)].Ok) =>
              /\ pc = "done"
              /\ result = ErrRun(ran[Len(ran)].Version)
        /\ AppliedVersions(ledger) \ {0} =
              ((AppliedVersions(startLedger) \ {0}) \cup C29_Committed(TRUE))
                  \ C29_Committed(FALSE)
        /\ Len(ledger) = Len(IF tableExists THEN StartRows ELSE startLedger)
                            + Cardinality(C29_Committed(TRUE))
                            - Cardinality(C29_Committed(FALSE))

C29_Witness ==
    /\ op.name = "UpTo" /\ Versioned /\ op.opts.allowMissing /\ pc = "done"
    /\ Len(ran) = 3 /\ ran[1].Ok /\ ran[2].Ok /\ ~ran[3].Ok
    /\ RanVersions = <<1, 2, 3>>
    /\ AppliedVersions(startLedger) = {0}
    /\ AppliedVersions(ledger) = {0, 1, 2}
    /\ result = ErrRun(3)

----------------------------------------------------------------------------
\* C30: with the sequential-only guard set, Up, UpTo and UpByOne fail with
\* ErrTimestampVersionsExist whenever a collected unit in range has a
\* timestamp-style version, before the database is used: no ledger table is
\* created, no unit is applied and no event is sent; with no such version in
\* range the call starts exactly as the same call without the guard.
C30_Guarded(o) == o.sequentialVersionsOnly

C30_TimestampsInRange(dir, version) ==
    {v \in dir : v > 0 /\ v <= version /\ v \in TimestampVersions}

C30_Rejects ==
    (/\ pc # "idle" /\ op.name \in Forward /\ C30_Guarded(op.opts)
     /\ C30_TimestampsInRange(op.dir, op.version) # {}) =>
        /\ pc = "done"
        /\ result.kind = "ErrTimestampVersionsExist"
        /\ result.detail = SetToSeq(C30_TimestampsInRange(op.dir, op.version))
        /\ tableExists = (startLedger # <<>>)
        /\ ledger = startLedger
        /\ ran = <<>>
        /\ events = <<>>

C30_Step ==
    (/\ pc = "idle" /\ pc' # "idle"
     /\ op'.name \in Forward /\ C30_Guarded(op'.opts)
     /\ C30_TimestampsInRange(op'.dir, op'.version) = {}) =>
        UpToEntry(op'.name, op'.dir, op'.version,
                  [op'.opts EXCEPT !.sequentialVersionsOnly = FALSE])

C30_GuardRejectsOrIsTransparent == []C30_Rejects /\ [][C30_Step]_vars

C30_Witness ==
    /\ pc = "done" /\ op.name = "UpTo" /\ C30_Guarded(op.opts)
    /\ op.opts.events /\ ~op.opts.dontCloseChannel
    /\ op.dir = 1..MaxVersionID /\ op.version = MaxVersionID
    /\ startLedger = <<>> /\ ~tableExists /\ ledger = <<>>
    /\ result.kind = "ErrTimestampVersionsExist"
    /\ ran = <<>> /\ events = <<>> /\ chan = "closed"

----------------------------------------------------------------------------
\* C31: the ledger is append-only: no step of an operation (Up, UpTo,
\* UpByOne, Down, DownTo, Reset, Status) removes an existing ledger row; a
\* revert adds or marks a new row and deletes none.
C31_RowsKept ==
    /\ Len(ledger') >= Len(ledger)
    /\ SubSeq(ledger', 1, Len(ledger)) = ledger

C31_Revert ==
    /\ Len(ran') = Len(ran) + 1
    /\ ran'[Len(ran')].Ok /\ ~ran'[Len(ran')].Up
    /\ ~op.opts.noVersioning

C31_AppendOnlyButRevert == [][~C31_Revert => C31_RowsKept]_vars

----------------------------------------------------------------------------
\* C32: in no-versioning mode DownTo(target) (downToNoVersioning) runs the
\* down action of exactly the collected units whose version is strictly
\* greater than target, in descending version order, and does not run the
\* down action of the unit whose version equals target.
C32_DescendingSeq(S) ==
    LET vs == SetToSeq(S)
    IN [i \in 1..Len(vs) |-> vs[Len(vs) + 1 - i]]

C32_Above == {v \in Collected : v > op.version}

C32_Completed ==
    /\ pc = "done" /\ ~Versioned /\ op.name = "DownTo"
    /\ AllOk /\ result.kind = "nil"

C32_DownToAboveTargetOnly ==
    C32_Completed =>
        /\ \A i \in 1..Len(ran) : ~ran[i].Up
        /\ RanVersions = C32_DescendingSeq(C32_Above)
        /\ \A i \in 1..Len(ran) : ran[i].Version # op.version

\* What the loop of downToNoVersioning reverts: the units above the target
\* and the highest unit at or below it.
C32_AtOrBelow == {v \in Collected : v <= op.version}

C32_Reverted ==
    C32_Above \cup (IF C32_AtOrBelow = {} THEN {} ELSE {Max(C32_AtOrBelow)})

C32_DownToThroughTarget ==
    C32_Completed =>
        /\ \A i \in 1..Len(ran) : ~ran[i].Up
        /\ RanVersions = C32_DescendingSeq(C32_Reverted)

----------------------------------------------------------------------------
\* C33: the TotalVersionsLeft of the VersionCountEvent of a run equals the
\* number of units the run applies or reverts when it completes without
\* error, and so the number of before/after VersionApplyEvent pairs it
\* sends, for Up, UpTo, UpByOne, allow-missing UpTo and Down, in versioned
\* and in no-versioning mode.
C33_Counted ==
    /\ pc = "done" /\ result.kind = "nil"
    /\ op.name \in {"UpTo", "Up", "UpByOne", "Down"}
    /\ op.opts.events /\ CountEvents # <<>>

C33_CountIsRuns ==
    /\ CountEvents[1].TotalVersionsLeft = Len(ran)
    /\ Len(ApplyEvents) = 2 * Len(ran)

C33_CountEqualsUnitsRun == C33_Counted => C33_CountIsRuns

\* The same for every operation but the plain versioned UpByOne and the
\* no-versioning Down.
C33_CountButUpByOneAndDown ==
    (/\ C33_Counted
     /\ ~(Versioned /\ op.name = "UpByOne" /\ ~op.opts.allowMissing)
     /\ ~(~Versioned /\ op.name = "Down")) =>
        C33_CountIsRuns

----------------------------------------------------------------------------
\* C34: after any sequence of versioned operations of a single driver (Up,
\* UpTo, UpByOne, Down, DownTo, Reset, with or without allow-missing) no
\* unit is run in the up direction while the ledger records it as applied,
\* so every version has at most one applied ledger row.
C34_OneRowPerVersion ==
    \A v \in 0..MaxVersionID :
        Len(SelectSeq(RowsOfVersion(ledger, v), LAMBDA r : r.isApplied)) <= 1

\* The step is the run of a versioned unit in the up direction.
C34_UpRun ==
    /\ Len(ran') = Len(ran) + 1
    /\ ran'[Len(ran')].Up
    /\ ~op.opts.noVersioning

C34_Step == C34_UpRun => ran'[Len(ran')].Version \notin AppliedVersions(ledger)

C34_NoUnitAppliedTwice == []C34_OneRowPerVersion /\ [][C34_Step]_vars

C34_Witness ==
    /\ pc = "done" /\ Versioned /\ op.name = "UpByOne" /\ op.opts.allowMissing
    /\ op.dir = {1, 2, 3}
    /\ startLedger = <<Row(0, TRUE), Row(3, TRUE), Row(1, TRUE)>>
    /\ ran = <<Unit(2, TRUE, TRUE)>>
    /\ ledger = <<Row(0, TRUE), Row(3, TRUE), Row(1, TRUE), Row(2, TRUE)>>

----------------------------------------------------------------------------
\* C35: when the ledger has no missing migrations, UpTo(target) with
\* allow-missing set and UpTo(target) without it apply the same units in the
\* same order, leave the same ledger and return the same result (also for
\* UpByOne), from every reachable ledger state: what a call does is a
\* function of the ledger it starts from, its arguments other than
\* allow-missing and the unit that fails.
C35_Pending == SetToSeq({v \in Collected : v \notin KnownAtStart})

\* The number of units a call without a failing unit runs.
C35_Runs == IF op.name = "UpByOne" /\ C35_Pending # <<>> THEN 1 ELSE Len(C35_Pending)

C35_Result ==
    IF ran # <<>> /\ ~ran[Len(ran)].Ok THEN ErrRun(ran[Len(ran)].Version)
    ELSE IF op.name = "UpByOne" /\ C35_Pending = <<>> THEN ErrNoNextVersion
    ELSE Nil

C35_SameWithAllowMissing ==
    (/\ pc # "idle" /\ Versioned /\ Admitted /\ op.name \in Forward
     /\ MissingAtStart = {}) =>
        /\ Len(ran) <= C35_Runs
        /\ RanVersions = SubSeq(C35_Pending, 1, Len(ran))
        /\ \A i \in 1..Len(ran) : ran[i].Up /\ (i < Len(ran) => ran[i].Ok)
        /\ ledger = StartRows \o RowsOf([i \in 1..Len(OkRuns) |-> OkRuns[i].Version])
        /\ pc = "done" =>
              /\ result = C35_Result
              /\ AllOk => Len(ran) = C35_Runs

C35_Witness ==
    /\ pc = "done" /\ Versioned /\ op.name = "UpTo" /\ op.opts.allowMissing
    /\ op.dir = {1, 2, 3} /\ op.version = 3
    /\ AppliedVersions(startLedger) = {0, 1} /\ MissingAtStart = {}
    /\ RanVersions = <<2, 3>> /\ AllOk /\ result = Nil

----------------------------------------------------------------------------
\* C36: if the ledger cannot be read (the ledger query fails), Reset returns
\* an error to its caller; it does not return nil having reverted nothing.
\* The query fails when the ledger table does not exist.
C36_QueryFailed == op.name = "Reset" /\ Versioned /\ ~tableExists

C36_ResetReportsQueryError ==
    (pc = "done" /\ C36_QueryFailed) => result.kind # "nil"

\* What Reset does when the query fails: nothing, and it returns nil.
C36_ResetSwallowsQueryError ==
    (pc = "done" /\ C36_QueryFailed) =>
        /\ result = Nil
        /\ ran = <<>>
        /\ loc.statuses = {}

----------------------------------------------------------------------------
\* C37: every top-level operation terminates when each unit run returns and
\* either no sink is supplied or the consumer keeps receiving: in the loop
\* of UpTo the current ledger version strictly increases with each applied
\* unit and in the loop of DownTo it strictly decreases with each reverted
\* unit, so no unit is applied or reverted forever.
C37_Running == pc \notin {"idle", "done", "panic"}

\* The call has returned, or has ended in a panic.
C37_Ended == pc \in {"done", "panic"}

\* The step is a successful unit run.
C37_RunOk == Len(ran') = Len(ran) + 1 /\ ran'[Len(ran')].Ok

C37_Variant ==
    /\ (pc = "up_run" /\ C37_RunOk) => GetDBVersion(ledger') > GetDBVersion(ledger)
    /\ (pc = "dt_run" /\ C37_RunOk) => GetDBVersion(ledger') < GetDBVersion(ledger)

C37_Terminates == (C37_Running ~> C37_Ended) /\ [][C37_Variant]_vars

C37_Witness ==
    /\ pc = "done" /\ Versioned /\ op.name = "DownTo" /\ op.version = 0
    /\ op.dir = {1, 2, 3}
    /\ AppliedVersions(startLedger) = {0, 1, 2, 3}
    /\ RanVersions = <<3, 2, 1>> /\ AllOk
    /\ GetDBVersion(ledger) = 0 /\ result = Nil

----------------------------------------------------------------------------
\* C38: every operation invoked on an explicit Provider instance uses only
\* that instance's configuration (source set, dialect, ledger table) in
\* every mode; in particular Reset in no-versioning mode on provider p
\* reverts the collected units of p and never drives the global default
\* provider.
C38_OwnConfiguration ==
    /\ loc.provider = "p"
    /\ \A i \in 1..Len(loc.found) : loc.found[i].Version \in op.dir
    /\ \A i \in 1..Len(ran) : ran[i].Version \in op.dir

C38_ProviderOwnConfiguration == pc # "idle" => C38_OwnConfiguration

\* The same for every operation but the no-versioning Reset.
C38_OwnButResetNoVersioning ==
    (pc # "idle" /\ ~(op.name = "Reset" /\ ~Versioned)) => C38_OwnConfiguration

----------------------------------------------------------------------------
\* C39: AreEventsEqual is reflexive and symmetric over non-nil event values,
\* returns true for two nil events and false for nil against non-nil,
\* returns false for events of different kinds, and ignores exact time
\* stamps: StatusEvents compare by Versioned, Version, Source and the
\* zero-ness of AppliedAt only, VersionApplyEvents ignore ApplyAT.
C39_Compared == run.state = "compared"

C39_Returns(b) == IF b THEN "true" ELSE "false"

C39_SameBut(e, o, ignored) ==
    /\ e.kind = o.kind
    /\ \A f \in (DOMAIN e) \ ({"pointer"} \cup ignored) : e[f] = o[f]

C39_EqualityLaws(e1, e2) ==
    /\ e1 # NilEvent => run.self = "true"
    /\ (e1 # NilEvent /\ e2 # NilEvent) => run.forward = run.backward
    /\ (e1 = NilEvent /\ e2 = NilEvent) => run.forward = "true"
    /\ (e1 = NilEvent) # (e2 = NilEvent) =>
          run.forward = "false" /\ run.backward = "false"
    /\ e1.kind # e2.kind => run.forward = "false"
    /\ (e1.kind = "Status" /\ e2.kind = "Status") =>
          run.forward =
              C39_Returns(/\ C39_SameBut(e1, e2, {"AppliedAt"})
                          /\ IsZero(e1.AppliedAt) = IsZero(e2.AppliedAt))
    /\ (e1.kind = "VersionApply" /\ e2.kind = "VersionApply") =>
          run.forward = C39_Returns(C39_SameBut(e1, e2, {"ApplyAT"}))

C39_AreEventsEqualLaws == C39_Compared => C39_EqualityLaws(run.e1, run.e2)

\* The same for the events that are not nil pointers; a nil pointer as the
\* second event only is not equal to any event.
C39_LawsButNilPointers ==
    C39_Compared =>
        /\ (~(run.e1 # NilEvent /\ run.e1.null) /\ ~(run.e2 # NilEvent /\ run.e2.null)) =>
              C39_EqualityLaws(run.e1, run.e2)
        /\ (run.e1 # NilEvent /\ run.e1.null) =>
              run.forward = (IF run.e2 = NilEvent THEN "false" ELSE "panic")
        /\ (run.e1 # NilEvent /\ ~run.e1.null /\ run.e2 # NilEvent /\ run.e2.null) =>
              run.forward = "false"

----------------------------------------------------------------------------
\* C40: for every status value Verify can produce, VerifyStatus.Ok() is true
\* only if no error was recorded (the VerifyStatusErr bit is clear and Error
\* is nil); in particular Ok() is false when a templated SQL file failed to
\* compile, whether or not timestamp-style migrations are also present.
C40_Verified == run.state = "verified"

C40_TemplateFailed ==
    /\ run.fail = "none"
    /\ \E i \in 1..Len(run.migrations) :
          run.migrations[i].ext = ".tpl.sql" /\ ~run.migrations[i].compiles

C40_OkOnlyWithoutError ==
    C40_Verified =>
        /\ run.ok =>
              /\ BitAnd(run.vs.Status, VerifyStatusErr) = 0
              /\ run.vs.Error = <<>>
        /\ C40_TemplateFailed => ~run.ok

\* The same for the trees without a timestamp-style version; with one, Ok()
\* is true whatever else was recorded.
C40_Timestamps ==
    /\ run.fail = "none"
    /\ \E i \in 1..Len(run.migrations) : run.migrations[i].Version \in TimestampVersions

C40_OkButTimestamps ==
    C40_Verified =>
        IF C40_Timestamps
        THEN run.ok
        ELSE /\ run.ok <=> (BitAnd(run.vs.Status, VerifyStatusErr) = 0
                              /\ run.vs.Error = <<>>)
             /\ C40_TemplateFailed => ~run.ok

====
